---- MODULE Spec2Model ----
(***************************************************************************)
(* Storage abstraction layer of the portfolio manager                      *)
(* (src/portfolio_manager/storage.py), the routes that drive it            *)
(* (src/portfolio_manager/routes.py) and the summary and forecast          *)
(* calculations (src/portfolio_manager/api_services.py).                   *)
(*                                                                         *)
(* Nine specifications share the variables:                                *)
(*   SpecStore  one backend object (ExcelStorage, InMemoryStorage or       *)
(*              FirebaseStorage), its four operations and the workbook     *)
(*              import and export called one after the other;              *)
(*   Spec       the storage selector (get_storage, set_storage_mode,       *)
(*              reset_storage) and the routes that use it;                 *)
(*   SpecRoutes the route handlers that read and write collections         *)
(*              through the selector;                                      *)
(*   SpecMem    InMemoryStorage with its bulk load and export;             *)
(*   SpecConc   two requests whose reads and writes interleave at the      *)
(*              I/O steps of the backend;                                  *)
(*   SpecCalc   the portfolio summary, the net worth snapshot and the      *)
(*              forecast, computed in binary64 arithmetic;                 *)
(*   SpecScope  two requests on InMemoryStorage, each under the scope id   *)
(*              it sets with set_browser_id;                               *)
(*   SpecOverlap a read of FirebaseStorage while a write is in progress;   *)
(*   SpecCli    the add, update and delete commands of main.py.            *)
(***************************************************************************)
EXTENDS Integers, Sequences, FiniteSets, TLC

VARIABLES
    obj,                 \* SpecStore/SpecConc: class of the backend object in use
    xlFile,              \* ExcelStorage: the workbook file at file_path
    all_browser_data,    \* InMemoryStorage._all_browser_data
    current_browser_id,  \* InMemoryStorage._current_browser_id
    fsdocs,              \* Firestore: users/<user_id>/<collection>/<doc id>
    config,              \* data/config.json
    storage_instance,    \* storage._storage_instance
    fbApp,               \* firebase_admin: a default app is initialised
    libInstalled,        \* the firebase-admin package can be imported
    nextId,              \* identity of the next backend object constructed
    outcome,             \* what the last handler reported to its caller
    pc,                  \* SpecConc: position of each request
    loc                  \* SpecConc: local variables of each request

storeVars == <<xlFile, all_browser_data, current_browser_id, fsdocs>>
selVars   == <<config, storage_instance, fbApp, libInstalled, nextId>>
concVars  == <<pc, loc>>
vars      == <<obj, xlFile, all_browser_data, current_browser_id, fsdocs,
               config, storage_instance, fbApp, libInstalled, nextId,
               outcome, pc, loc>>

----------------------------------------------------------------------------
(* Bounds and input domains                                                *)

\* rows of the datasets enumerated as inputs
MaxRows == 1
\* row count of the one long dataset (document ids doc_0 .. doc_10)
LongRows == 11

\* the collection names: the placeholder, one asset collection and the
\* collection of net-worth snapshots
Names  == {"Summary", "X", "Net Worth History"}
\* the names the backend operations are called with directly
StoreNames == {"Summary", "X"}
Scopes == {"default", "b1"}
\* values of _current_browser_id; "None" is Python's None
BrowserIds == {"None", "b1"}

NaN  == "NaN"
None == "None"
Cells == {"a", NaN, None}

\* a record of a DataFrame with the single column "name"
Rec(c) == [name |-> c]

\* pd.isna / the negation of pd.notna
IsNa(c) == c \in {NaN, None}

\* a dataset of k rows whose last row holds the cell c
RowsEnding(k, c) == [i \in 1..k |-> IF i = k THEN Rec(c) ELSE Rec("a")]

\* the long dataset: its last row differs from the others, so that the
\* order of its rows shows
LongDataset == RowsEnding(LongRows, NaN)

Datasets == {<<>>, LongDataset}
              \cup {RowsEnding(k, c) : k \in 1..MaxRows, c \in Cells}

\* two cells are the same up to the kind of null
CellEq(a, b) == (IsNa(a) /\ IsNa(b)) \/ a = b

RowEq(r, s) ==
    /\ DOMAIN r = DOMAIN s
    /\ \A k \in DOMAIN r : CellEq(r[k], s[k])

\* two datasets hold the same records in the same order, NaN and null alike
EqNa(D, E) ==
    /\ Len(D) = Len(E)
    /\ \A i \in 1..Len(D) : RowEq(D[i], E[i])

\* every row of D is a row of E (up to the kind of null)
RowsWithin(D, E) == \A i \in 1..Len(D) : \E j \in 1..Len(E) : RowEq(D[i], E[j])

\* a collection slot of a backend: absent, or present with its rows
Absent == [present |-> FALSE, rows |-> <<>>]
Present(rows) == [present |-> TRUE, rows |-> rows]

----------------------------------------------------------------------------
(* ExcelStorage                                                            *)

Blank == "blank"

\* DataFrame.to_excel: a null cell is written as an empty cell
to_excel(df) ==
    [i \in DOMAIN df |->
        [k \in DOMAIN df[i] |-> IF IsNa(df[i][k]) THEN Blank ELSE df[i][k]]]

\* pd.read_excel: an empty cell is read as NaN
read_excel(sheet) ==
    [i \in DOMAIN sheet |->
        [k \in DOMAIN sheet[i] |-> IF sheet[i][k] = Blank THEN NaN ELSE sheet[i][k]]]

NoFile == [exists |-> FALSE, sheets |-> [n \in Names |-> Absent]]

Excel_ensure_file_exists(f) ==
    IF ~f.exists
    THEN [exists |-> TRUE,
          sheets |-> [n \in Names |-> IF n = "Summary" THEN Present(<<>>) ELSE Absent]]
    ELSE f

Excel_get_collection_names(f) == {n \in Names : f.sheets[n].present}

Excel_get_data(f, collection_name) ==
    IF collection_name \in Excel_get_collection_names(f)
    THEN read_excel(f.sheets[collection_name].rows)
    ELSE <<>>

\* all_data before the new dataset is put in: every sheet of the file other
\* than collection_name, read back
Excel_read_others(f, collection_name) ==
    [n \in Names |->
        IF f.exists /\ n \in Excel_get_collection_names(f) /\ n # collection_name
        THEN Present(read_excel(f.sheets[n].rows))
        ELSE Absent]

\* with pd.ExcelWriter(...): the file rewritten with the sheets of all_data
Excel_write(all_data) ==
    [exists |-> TRUE,
     sheets |-> [n \in Names |->
                    IF all_data[n].present
                    THEN Present(to_excel(all_data[n].rows))
                    ELSE Absent]]

\* save_data as it would be if the other sheets were not read back before the
\* file is rewritten
Excel_save_data_drop_others(f, collection_name, df) ==
    Excel_write([n \in Names |-> IF n = collection_name THEN Present(df) ELSE Absent])

Excel_save_data(f, collection_name, df) ==
    Excel_write([Excel_read_others(f, collection_name)
                    EXCEPT ![collection_name] = Present(df)])

Excel_delete_collection(f, collection_name) ==
    LET all_data == Excel_read_others(f, collection_name)
    IN IF \E n \in Names : all_data[n].present
       THEN Excel_write(all_data)
       ELSE f

----------------------------------------------------------------------------
(* InMemoryStorage                                                         *)

NoStore == [exists |-> FALSE, colls |-> [n \in Names |-> Absent]]

\* bid = InMemoryStorage._current_browser_id or 'default'
Mem_bid(cur) == IF cur = "None" THEN "default" ELSE cur

\* _get_data_store: the store of the current scope, created with the
\* "Summary" placeholder when the scope has none
InMemory_get_data_store(abd, cur) ==
    IF ~abd[Mem_bid(cur)].exists
    THEN [abd EXCEPT ![Mem_bid(cur)] =
            [exists |-> TRUE,
             colls  |-> [n \in Names |->
                            IF n = "Summary" THEN Present(<<>>) ELSE Absent]]]
    ELSE abd

InMemory_get_collection_names(abd, cur) ==
    {n \in Names : InMemory_get_data_store(abd, cur)[Mem_bid(cur)].colls[n].present}

InMemory_get_data(abd, cur, collection_name) ==
    LET store == InMemory_get_data_store(abd, cur)[Mem_bid(cur)].colls
    IN IF store[collection_name].present THEN store[collection_name].rows ELSE <<>>

\* the stores after get_data as it would be if the collection were looked up
\* with setdefault
InMemory_after_get_data_setdefault(abd, cur, collection_name) ==
    LET store == InMemory_get_data_store(abd, cur)
    IN IF store[Mem_bid(cur)].colls[collection_name].present
       THEN store
       ELSE [store EXCEPT ![Mem_bid(cur)].colls[collection_name] = Present(<<>>)]

\* the stores after get_data: _get_data_store() ran, .get() added nothing
InMemory_after_get_data(abd, cur, collection_name) ==
    InMemory_get_data_store(abd, cur)

\* save_data as it would be if the rows of df were added to the stored rows
\* instead of replacing them
InMemory_save_data_append(abd, cur, collection_name, df) ==
    LET store == InMemory_get_data_store(abd, cur)
        old == IF store[Mem_bid(cur)].colls[collection_name].present
               THEN store[Mem_bid(cur)].colls[collection_name].rows
               ELSE <<>>
    IN [store EXCEPT ![Mem_bid(cur)].colls[collection_name] =
            Present(old \o SelectSeq(df, LAMBDA row : \A i \in 1..Len(old) : old[i] # row))]

InMemory_save_data(abd, cur, collection_name, df) ==
    [InMemory_get_data_store(abd, cur)
        EXCEPT ![Mem_bid(cur)].colls[collection_name] = Present(df)]

InMemory_delete_collection(abd, cur, collection_name) ==
    [InMemory_get_data_store(abd, cur)
        EXCEPT ![Mem_bid(cur)].colls[collection_name] = Absent]

\* the columns of pd.DataFrame(records): every key of every record
Columns(records) == UNION {DOMAIN records[i] : i \in 1..Len(records)}

\* pd.DataFrame(records): one row per record, a key the record lacks is NaN
DataFrame(records) ==
    [i \in 1..Len(records) |->
        [k \in Columns(records) |->
            IF k \in DOMAIN records[i] THEN records[i][k] ELSE NaN]]

\* pd.concat([df, pd.DataFrame([item])], ignore_index=True): the columns of
\* both, NaN where a row lacks one
concat(df, item) == DataFrame(Append(df, item))

\* df.empty
df_empty(df) == Len(df) = 0 \/ Columns(df) = {}

InMemory_load_all_data(abd, cur, data) ==
    [abd EXCEPT ![Mem_bid(cur)] =
        [exists |-> TRUE,
         colls  |-> [n \in Names |->
                        IF data[n].present
                        THEN Present(IF data[n].rows # <<>>
                                     THEN DataFrame(data[n].rows)
                                     ELSE <<>>)
                        ELSE IF n = "Summary" THEN Present(<<>>) ELSE Absent]]]

\* df.to_dict('records') with every NaN made None
export_records(df) ==
    [i \in 1..Len(df) |->
        [k \in DOMAIN df[i] |-> IF IsNa(df[i][k]) THEN None ELSE df[i][k]]]

InMemory_export_all_data(abd, cur) ==
    LET store == InMemory_get_data_store(abd, cur)[Mem_bid(cur)].colls
    IN [n \in Names |->
          IF store[n].present
          THEN Present(IF ~df_empty(store[n].rows)
                       THEN export_records(store[n].rows)
                       ELSE <<>>)
          ELSE Absent]

----------------------------------------------------------------------------
(* FirebaseStorage                                                         *)
(* A sub-collection is a function from document numbers to records; the    *)
(* document numbered i has the id "doc_<i>".                               *)

NoDocs == [i \in {} |-> Rec("a")]

\* the decimal digits of i, as in f'doc_{i}'
RECURSIVE Digits(_)
Digits(i) == IF i < 10 THEN <<i>> ELSE Append(Digits(i \div 10), i % 10)

\* doc.id of document i
DocId(i) == <<"doc_", Digits(i)>>

\* the id of document i sorts before the id of document j as a string
IdLess(i, j) ==
    LET a == Digits(i)
        b == Digits(j)
    IN \/ \E k \in 1..Len(a) :
            /\ k <= Len(b)
            /\ \A m \in 1..(k - 1) : a[m] = b[m]
            /\ a[k] < b[k]
       \/ /\ Len(a) < Len(b)
          /\ \A m \in 1..Len(a) : a[m] = b[m]

\* collection_ref.stream(): the document numbers in the order of their ids
stream(docs) ==
    LET ids == DOMAIN docs
    IN [k \in 1..Cardinality(ids) |->
          CHOOSE i \in ids : Cardinality({j \in ids : IdLess(j, i)}) = k - 1]

\* doc.reference.delete() for one document
doc_delete(docs, i) == [j \in DOMAIN docs \ {i} |-> docs[j]]

\* collection_ref.document(f'doc_{i}').set(record)
doc_set(docs, i, record) ==
    [j \in DOMAIN docs \cup {i} |-> IF j = i THEN record ELSE docs[j]]

\* {k: (v if pd.notna(v) else None) for k, v in record.items()}
clean_record(record) ==
    [k \in DOMAIN record |-> IF IsNa(record[k]) THEN None ELSE record[k]]

Firebase_get_collection_names(fs) == {n \in Names : DOMAIN fs[n] # {}}

\* the records of the streamed documents with '_doc_id' added
Firebase_records(docs) ==
    LET order == stream(docs)
    IN [k \in DOMAIN order |-> docs[order[k]] @@ ("_doc_id" :> DocId(order[k]))]

drop_doc_id(records) ==
    [k \in DOMAIN records |->
        [f \in DOMAIN records[k] \ {"_doc_id"} |-> records[k][f]]]

Firebase_get_data(fs, collection_name) ==
    drop_doc_id(Firebase_records(fs[collection_name]))

RECURSIVE delete_all(_, _)
delete_all(docs, ids) ==
    IF ids = <<>> THEN docs ELSE delete_all(doc_delete(docs, Head(ids)), Tail(ids))

RECURSIVE set_all(_, _, _)
set_all(docs, records, i) ==
    IF i >= Len(records) THEN docs
    ELSE set_all(doc_set(docs, i, clean_record(records[i + 1])), records, i + 1)

\* save_data as it would be without the loop that deletes the existing
\* documents
Firebase_save_data_keep_old(fs, collection_name, df) ==
    [fs EXCEPT ![collection_name] = set_all(fs[collection_name], df, 0)]

Firebase_save_data(fs, collection_name, df) ==
    [fs EXCEPT ![collection_name] =
        set_all(delete_all(fs[collection_name], stream(fs[collection_name])), df, 0)]

\* delete_collection as it would be if only the first streamed document were
\* deleted
Firebase_delete_collection_first_only(fs, collection_name) ==
    [fs EXCEPT ![collection_name] =
        IF DOMAIN fs[collection_name] = {} THEN fs[collection_name]
        ELSE doc_delete(fs[collection_name], Head(stream(fs[collection_name])))]

Firebase_delete_collection(fs, collection_name) ==
    [fs EXCEPT ![collection_name] =
        delete_all(fs[collection_name], stream(fs[collection_name]))]

----------------------------------------------------------------------------
(* The parts of the state a specification leaves alone                     *)

Backends == {"ExcelStorage", "InMemoryStorage", "FirebaseStorage"}

NoInstance == [kind |-> "None", id |-> 0]
\* firebase_config without credentials (the empty dict: .get gives None)
NoFbConfig == [service_account_path |-> "", service_account_json |-> ""]
NoConfig == [exists |-> FALSE, storage_mode |-> "unset", firebase_config |-> NoFbConfig]
\* what a backend operation was called with and what it returned
Called(op, n, df, rows, names) ==
    [op |-> op, name |-> n, df |-> df, rows |-> rows, names |-> names]
Idle == Called("none", "Summary", <<>>, <<>>, {})

Requests == {1, 2}
NoLocal == [op |-> "none", name |-> "X", df |-> <<>>, read |-> <<>>,
            all_data |-> [n \in Names |-> Absent], docs |-> <<>>, i |-> 0,
            result |-> "none"]

----------------------------------------------------------------------------
(* SpecStore: one backend object and its four operations                   *)

InitStore ==
    /\ obj \in Backends
    /\ xlFile = IF obj = "ExcelStorage" THEN Excel_ensure_file_exists(NoFile) ELSE NoFile
    /\ all_browser_data = [s \in Scopes |-> NoStore]
    /\ current_browser_id = "None"
    /\ fsdocs = [n \in Names |-> NoDocs]
    /\ config = NoConfig
    /\ storage_instance = NoInstance
    /\ fbApp = (obj = "FirebaseStorage")
    /\ libInstalled = TRUE
    /\ nextId = 1
    /\ outcome = Idle
    /\ pc = [r \in Requests |-> "idle"]
    /\ loc = [r \in Requests |-> NoLocal]

ExcelStorage_save_data(n, df) ==
    /\ obj = "ExcelStorage"
    /\ xlFile' = Excel_save_data(xlFile, n, df)
    /\ outcome' = Called("save_data", n, df, <<>>, {})
    /\ UNCHANGED <<obj, all_browser_data, current_browser_id, fsdocs,
                   selVars, concVars>>

ExcelStorage_delete_collection(n) ==
    /\ obj = "ExcelStorage"
    /\ xlFile' = Excel_delete_collection(xlFile, n)
    /\ outcome' = Called("delete_collection", n, <<>>, <<>>, {})
    /\ UNCHANGED <<obj, all_browser_data, current_browser_id, fsdocs,
                   selVars, concVars>>

ExcelStorage_get_data(n) ==
    /\ obj = "ExcelStorage"
    /\ outcome' = Called("get_data", n, <<>>, Excel_get_data(xlFile, n), {})
    /\ UNCHANGED <<obj, storeVars, selVars, concVars>>

ExcelStorage_get_collection_names ==
    /\ obj = "ExcelStorage"
    /\ outcome' = Called("get_collection_names", "Summary", <<>>, <<>>,
                         Excel_get_collection_names(xlFile))
    /\ UNCHANGED <<obj, storeVars, selVars, concVars>>

InMemoryStorage_set_browser_id(b) ==
    /\ obj = "InMemoryStorage"
    /\ current_browser_id' = b
    /\ outcome' = Called("set_browser_id", "Summary", <<>>, <<>>, {})
    /\ UNCHANGED <<obj, xlFile, all_browser_data, fsdocs, selVars, concVars>>

InMemoryStorage_save_data(n, df) ==
    /\ obj = "InMemoryStorage"
    /\ all_browser_data' = InMemory_save_data(all_browser_data, current_browser_id, n, df)
    /\ outcome' = Called("save_data", n, df, <<>>, {})
    /\ UNCHANGED <<obj, xlFile, current_browser_id, fsdocs, selVars, concVars>>

InMemoryStorage_delete_collection(n) ==
    /\ obj = "InMemoryStorage"
    /\ all_browser_data' = InMemory_delete_collection(all_browser_data, current_browser_id, n)
    /\ outcome' = Called("delete_collection", n, <<>>, <<>>, {})
    /\ UNCHANGED <<obj, xlFile, current_browser_id, fsdocs, selVars, concVars>>

\* get_data and get_collection_names go through _get_data_store, which
\* creates the store of the current scope
InMemoryStorage_get_data(n) ==
    /\ obj = "InMemoryStorage"
    /\ all_browser_data' = InMemory_after_get_data(all_browser_data, current_browser_id, n)
    /\ outcome' = Called("get_data", n, <<>>,
                         InMemory_get_data(all_browser_data, current_browser_id, n), {})
    /\ UNCHANGED <<obj, xlFile, current_browser_id, fsdocs, selVars, concVars>>

InMemoryStorage_get_collection_names ==
    /\ obj = "InMemoryStorage"
    /\ all_browser_data' = InMemory_get_data_store(all_browser_data, current_browser_id)
    /\ outcome' = Called("get_collection_names", "Summary", <<>>, <<>>,
                         InMemory_get_collection_names(all_browser_data, current_browser_id))
    /\ UNCHANGED <<obj, xlFile, current_browser_id, fsdocs, selVars, concVars>>

FirebaseStorage_save_data(n, df) ==
    /\ obj = "FirebaseStorage"
    /\ fsdocs' = Firebase_save_data(fsdocs, n, df)
    /\ outcome' = Called("save_data", n, df, <<>>, {})
    /\ UNCHANGED <<obj, xlFile, all_browser_data, current_browser_id,
                   selVars, concVars>>

FirebaseStorage_delete_collection(n) ==
    /\ obj = "FirebaseStorage"
    /\ fsdocs' = Firebase_delete_collection(fsdocs, n)
    /\ outcome' = Called("delete_collection", n, <<>>, <<>>, {})
    /\ UNCHANGED <<obj, xlFile, all_browser_data, current_browser_id,
                   selVars, concVars>>

FirebaseStorage_get_data(n) ==
    /\ obj = "FirebaseStorage"
    /\ outcome' = Called("get_data", n, <<>>, Firebase_get_data(fsdocs, n), {})
    /\ UNCHANGED <<obj, storeVars, selVars, concVars>>

FirebaseStorage_get_collection_names ==
    /\ obj = "FirebaseStorage"
    /\ outcome' = Called("get_collection_names", "Summary", <<>>, <<>>,
                         Firebase_get_collection_names(fsdocs))
    /\ UNCHANGED <<obj, storeVars, selVars, concVars>>

Backend_save_data(n, df) ==
    \/ ExcelStorage_save_data(n, df)
    \/ InMemoryStorage_save_data(n, df)
    \/ FirebaseStorage_save_data(n, df)

Backend_delete_collection(n) ==
    \/ ExcelStorage_delete_collection(n)
    \/ InMemoryStorage_delete_collection(n)
    \/ FirebaseStorage_delete_collection(n)

Backend_get_data(n) ==
    \/ ExcelStorage_get_data(n)
    \/ InMemoryStorage_get_data(n)
    \/ FirebaseStorage_get_data(n)

Backend_get_collection_names ==
    \/ ExcelStorage_get_collection_names
    \/ InMemoryStorage_get_collection_names
    \/ FirebaseStorage_get_collection_names

\* the interchange files: a section or none for each of the names, the
\* section empty or not, and at least one section
Interchange ==
    {Excel_write([n \in Names |-> IF n \in StoreNames THEN sec[n] ELSE Absent]) :
        sec \in {f \in [StoreNames -> {Absent, Present(<<>>), Present(LongDataset)}] :
                    \E n \in StoreNames : f[n].present}}

\* the order of the sheets in a file
SheetOrder == <<"Summary", "X", "Net Worth History">>

\* the contents of the three stores
Stores == [xl |-> xlFile, abd |-> all_browser_data, fs |-> fsdocs]

\* storage.save_data(n, df) on the backend
store_save_data(st, n, df) ==
    CASE obj = "ExcelStorage" -> [st EXCEPT !.xl = Excel_save_data(@, n, df)]
      [] obj = "InMemoryStorage" ->
           [st EXCEPT !.abd = InMemory_save_data(@, current_browser_id, n, df)]
      [] obj = "FirebaseStorage" -> [st EXCEPT !.fs = Firebase_save_data(@, n, df)]

\* the loop of import_from_excel over wb.sheet_names
RECURSIVE import_sheets(_, _, _)
import_sheets(st, wb, sheet_names) ==
    IF sheet_names = <<>> THEN st
    ELSE import_sheets(
            IF wb.sheets[Head(sheet_names)].present
            THEN store_save_data(st, Head(sheet_names),
                                 read_excel(wb.sheets[Head(sheet_names)].rows))
            ELSE st,
            wb, Tail(sheet_names))

\* storage.py import_from_excel: every sheet of the file is saved under its
\* name
import_from_excel(wb) ==
    /\ \E st \in {import_sheets(Stores, wb, SheetOrder)} :
          /\ xlFile' = st.xl
          /\ all_browser_data' = st.abd
          /\ fsdocs' = st.fs
    /\ outcome' = [op |-> "import_from_excel", wb |-> wb]
    /\ UNCHANGED <<obj, current_browser_id, selVars, concVars>>

\* storage.get_collection_names() and storage.get_data(n) on the backend
store_get_collection_names ==
    CASE obj = "ExcelStorage" -> Excel_get_collection_names(xlFile)
      [] obj = "InMemoryStorage" ->
           InMemory_get_collection_names(all_browser_data, current_browser_id)
      [] obj = "FirebaseStorage" -> Firebase_get_collection_names(fsdocs)
store_get_data(n) ==
    CASE obj = "ExcelStorage" -> Excel_get_data(xlFile, n)
      [] obj = "InMemoryStorage" ->
           InMemory_get_data(all_browser_data, current_browser_id, n)
      [] obj = "FirebaseStorage" -> Firebase_get_data(fsdocs, n)

\* storage.py export_to_excel: one sheet per collection name, written from
\* what get_data returns; the writer raises when it was given no sheet
export_to_excel ==
    /\ outcome' = [op |-> "export_to_excel",
                   ok |-> store_get_collection_names # {},
                   file |-> Excel_write([n \in Names |->
                               IF n \in store_get_collection_names
                               THEN Present(store_get_data(n))
                               ELSE Absent])]
    /\ all_browser_data' = IF obj = "InMemoryStorage"
                           THEN InMemory_get_data_store(all_browser_data,
                                                        current_browser_id)
                           ELSE all_browser_data
    /\ UNCHANGED <<obj, xlFile, current_browser_id, fsdocs, selVars, concVars>>

NextStore ==
    \/ \E n \in StoreNames, df \in Datasets : Backend_save_data(n, df)
    \/ \E n \in StoreNames : Backend_delete_collection(n)
    \/ \E n \in StoreNames : Backend_get_data(n)
    \/ Backend_get_collection_names
    \/ \E b \in BrowserIds : InMemoryStorage_set_browser_id(b)
    \/ \E wb \in Interchange : import_from_excel(wb)
    \/ export_to_excel

SpecStore == InitStore /\ [][NextStore]_vars

(* C22: whatever the backend held before, importing an interchange file    *)
(* and exporting right after it gives a file with exactly the sections of  *)
(* the imported one, an empty section and the "Summary" section included   *)
(* and no other collection, and in each section the same rows, an empty    *)
(* cell and a null being the same.                                         *)
C22_ImportExportRoundTrip ==
    [][(outcome.op = "import_from_excel" /\ outcome'.op = "export_to_excel")
          => /\ outcome'.ok
             /\ \A n \in Names :
                   /\ outcome'.file.sheets[n].present = outcome.wb.sheets[n].present
                   /\ outcome.wb.sheets[n].present
                         => read_excel(outcome'.file.sheets[n].rows)
                              = read_excel(outcome.wb.sheets[n].rows)]_vars

\* what read(n) returns from the backend object in the given store state
ReadOf(f, abd, cur, fs, n) ==
    CASE obj = "ExcelStorage" -> Excel_get_data(f, n)
      [] obj = "InMemoryStorage" -> InMemory_get_data(abd, cur, n)
      [] obj = "FirebaseStorage" -> Firebase_get_data(fs, n)

\* what read(n) returns in the current state
ReadNow(n) == ReadOf(xlFile, all_browser_data, current_browser_id, fsdocs, n)

\* what list_collections() returns from the backend object in the given
\* store state
NamesOf(f, abd, cur, fs) ==
    CASE obj = "ExcelStorage" -> Excel_get_collection_names(f)
      [] obj = "InMemoryStorage" -> InMemory_get_collection_names(abd, cur)
      [] obj = "FirebaseStorage" -> Firebase_get_collection_names(fs)

\* what list_collections() returns in the current state
NamesNow ==
    CASE obj = "ExcelStorage" -> Excel_get_collection_names(xlFile)
      [] obj = "InMemoryStorage" ->
            InMemory_get_collection_names(all_browser_data, current_browser_id)
      [] obj = "FirebaseStorage" -> Firebase_get_collection_names(fsdocs)

----------------------------------------------------------------------------
(* Claims about the backends (SpecStore)                                   *)

\* C1: in each backend, read(name) right after write(name, D) returns the
\* records of D in their order, a NaN cell read back as a null and no
\* synthetic identifier field added, for every name and every dataset D.
C1_ReadAfterWrite ==
    outcome.op = "save_data" => EqNa(ReadNow(outcome.name), outcome.df)

(* C30: in the remote backend, where the rows of a write are the documents *)
(* doc_0 .. doc_{N-1} and a read enumerates the documents in the order of  *)
(* their ids as strings, the read after a write of N rows returns the rows *)
(* in the order written for every N, eleven rows and more included, so     *)
(* that the row at a row_index of the read is the row written at that      *)
(* index, the one document doc_{row_index} holds.                          *)
C30_RemoteReadKeepsOrder ==
    (obj = "FirebaseStorage" /\ outcome.op = "save_data") =>
        \E rows \in {Firebase_get_data(fsdocs, outcome.name)} :
            /\ Len(rows) = Len(outcome.df)
            /\ \A row_index \in 0..(Len(outcome.df) - 1) :
                  /\ RowEq(rows[row_index + 1], outcome.df[row_index + 1])
                  /\ RowEq(rows[row_index + 1], fsdocs[outcome.name][row_index])

\* the document numbers of sub-collection n are 0 .. k - 1
NumberedUpTo(n, k) == DOMAIN fsdocs[n] = 0..(k - 1)

\* C33: in the remote backend, after any sequence of writes and
\* delete_collection calls made one after the other, the document ids of
\* every sub-collection are doc_0 .. doc_{N-1} with no gap, where N is the
\* row count of the last write to it and 0 after a delete: no document of
\* an earlier, longer write survives.
C33_DocIdsSequential ==
    obj = "FirebaseStorage" =>
        /\ \A n \in Names : NumberedUpTo(n, Cardinality(DOMAIN fsdocs[n]))
        /\ outcome.op = "save_data" => NumberedUpTo(outcome.name, Len(outcome.df))
        /\ outcome.op = "delete_collection" => NumberedUpTo(outcome.name, 0)

\* a write of one row has returned while another sub-collection holds the
\* documents doc_0 .. doc_10 of a longer write
C33_Witness ==
    /\ obj = "FirebaseStorage"
    /\ outcome.op = "save_data"
    /\ Len(outcome.df) = 1
    /\ DOMAIN fsdocs[outcome.name] = {0}
    /\ \E n \in Names \ {outcome.name} : Cardinality(DOMAIN fsdocs[n]) > 1

\* what read(m) returns in scope s of the transient backend
ReadScope(abd, s, m) ==
    IF abd[s].exists /\ abd[s].colls[m].present THEN abd[s].colls[m].rows ELSE <<>>

\* the effect of write(n, df): the collection holds the rows of df and no
\* other, and nothing else changed
Replaced(n, df) ==
    LET after == ReadOf(xlFile', all_browser_data', current_browser_id', fsdocs', n)
    IN /\ Len(after) = Len(df)
       /\ RowsWithin(after, df)
       /\ RowsWithin(df, after)
       /\ \A m \in Names \ {n} :
            ReadOf(xlFile', all_browser_data', current_browser_id', fsdocs', m)
                = ReadNow(m)
       /\ \A s \in Scopes \ {Mem_bid(current_browser_id)}, m \in Names :
            ReadScope(all_browser_data', s, m) = ReadScope(all_browser_data, s, m)
       /\ obj # "ExcelStorage" => xlFile' = xlFile
       /\ obj # "InMemoryStorage" => all_browser_data' = all_browser_data
       /\ obj # "FirebaseStorage" => fsdocs' = fsdocs

\* C2: write(name, D) replaces the whole contents of the collection with D
\* (no row of the previous contents survives unless it is in D) and leaves
\* every other collection of the backend, and every collection of every
\* other transient scope, unchanged.
C2_FullReplaceWithFrame ==
    [][\A n \in Names, df \in Datasets :
          (outcome' = Called("save_data", n, df, <<>>, {}) /\ Backend_save_data(n, df))
              => Replaced(n, df)]_vars

\* a write has replaced one collection while another one held rows
C2_Witness ==
    /\ outcome.op = "save_data"
    /\ outcome.df # <<>>
    /\ \E m \in Names \ {outcome.name} : ReadNow(m) # <<>>

\* C3: in each backend, list_collections() right after write(X, D) includes
\* X, for every dataset D, the empty one included.
C3_ListedAfterWrite ==
    outcome.op = "save_data" => outcome.name \in NamesNow

\* C4: in each backend and from every reachable state, after
\* delete_collection(name) read(name) returns the empty dataset and
\* list_collections() does not contain name.
C4_GoneAfterDelete ==
    outcome.op = "delete_collection" =>
        /\ ReadNow(outcome.name) = <<>>
        /\ outcome.name \notin NamesNow

\* C15: in each backend, read(name) for a name that is not an existing
\* collection returns the empty dataset and does not create the collection:
\* list_collections() returns the same names before and after the read.
C15_ReadOfAbsent ==
    [][\A n \in StoreNames :
          (Backend_get_data(n) /\ n \notin NamesNow)
              => /\ outcome'.rows = <<>>
                 /\ NamesOf(xlFile', all_browser_data', current_browser_id', fsdocs')
                        = NamesNow]_vars

\* an absent collection has been read and is still absent
C15_Witness ==
    /\ outcome.op = "get_data"
    /\ outcome.name \notin NamesNow
    /\ outcome.rows = <<>>

\* the store state delete_collection(n) leaves, from the given store state
DeleteOf(f, abd, cur, fs, n) ==
    CASE obj = "ExcelStorage" -> <<Excel_delete_collection(f, n), abd, fs>>
      [] obj = "InMemoryStorage" -> <<f, InMemory_delete_collection(abd, cur, n), fs>>
      [] obj = "FirebaseStorage" -> <<f, abd, Firebase_delete_collection(fs, n)>>

\* C16: in each backend, delete_collection on an absent collection changes no
\* collection, and delete_collection(name) applied a second time leaves the
\* store state the first one left.
C16_DeleteIdempotent ==
    [][\A n \in StoreNames :
          Backend_delete_collection(n) =>
              /\ n \notin NamesNow =>
                    /\ NamesOf(xlFile', all_browser_data', current_browser_id', fsdocs')
                            = NamesNow
                    /\ \A m \in Names :
                          ReadOf(xlFile', all_browser_data', current_browser_id',
                                 fsdocs', m) = ReadNow(m)
              /\ DeleteOf(xlFile', all_browser_data', current_browser_id', fsdocs', n)
                    = <<xlFile', all_browser_data', fsdocs'>>]_vars

\* an absent collection has been deleted while another collection held rows
C16_Witness ==
    /\ outcome.op = "delete_collection"
    /\ outcome.name \notin NamesNow
    /\ \E m \in Names : ReadNow(m) # <<>>

----------------------------------------------------------------------------
(* SpecMem: the transient backend with its bulk load and bulk export       *)

\* the record lists a client pushes: none, one with a null, and one whose
\* records do not have the same keys
RecordLists == {<<>>, <<Rec(None)>>, <<Rec("a"), [qty |-> "1"]>>}

\* the mappings of collection names to record lists
DataMaps ==
    {[n \in Names |-> IF n \in StoreNames THEN d[n] ELSE Absent] :
        d \in [StoreNames -> {Absent} \cup {Present(l) : l \in RecordLists}]}

\* what a bulk operation was called with or returned
CalledBulk(op, data) == [op |-> op, data |-> data]

InitMem ==
    /\ obj = "InMemoryStorage"
    /\ xlFile = NoFile
    /\ all_browser_data = [s \in Scopes |-> NoStore]
    /\ current_browser_id = "None"
    /\ fsdocs = [n \in Names |-> NoDocs]
    /\ config = NoConfig
    /\ storage_instance = NoInstance
    /\ fbApp = FALSE
    /\ libInstalled = TRUE
    /\ nextId = 1
    /\ outcome = Idle
    /\ pc = [r \in Requests |-> "idle"]
    /\ loc = [r \in Requests |-> NoLocal]

InMemoryStorage_load_all_data(data) ==
    /\ obj = "InMemoryStorage"
    /\ all_browser_data' = InMemory_load_all_data(all_browser_data, current_browser_id, data)
    /\ outcome' = CalledBulk("load_all_data", data)
    /\ UNCHANGED <<obj, xlFile, current_browser_id, fsdocs, selVars, concVars>>

InMemoryStorage_export_all_data ==
    /\ obj = "InMemoryStorage"
    /\ all_browser_data' = InMemory_get_data_store(all_browser_data, current_browser_id)
    /\ outcome' = CalledBulk("export_all_data",
                             InMemory_export_all_data(all_browser_data, current_browser_id))
    /\ UNCHANGED <<obj, xlFile, current_browser_id, fsdocs, selVars, concVars>>

NextMem ==
    \/ \E n \in StoreNames, df \in {<<>>, <<Rec("a")>>} : InMemoryStorage_save_data(n, df)
    \/ \E n \in StoreNames : InMemoryStorage_delete_collection(n)
    \/ InMemoryStorage_get_collection_names
    \/ \E b \in BrowserIds : InMemoryStorage_set_browser_id(b)
    \/ \E data \in DataMaps : InMemoryStorage_load_all_data(data)
    \/ InMemoryStorage_export_all_data

SpecMem == InitMem /\ [][NextMem]_vars

----------------------------------------------------------------------------
(* Claims about the transient backend (SpecMem)                            *)

\* C17: in the transient backend, after any sequence of write,
\* delete_collection, load_all_data and scope changes, list_collections()
\* for the current scope contains "Summary".
C17_SummaryAlwaysListed ==
    "Summary" \in InMemory_get_collection_names(all_browser_data, current_browser_id)

\* what export_all_data() is to return after load_all_data(data): the
\* collections of data with their records, and "Summary" if data lacks it
Loaded(data) ==
    [n \in Names |->
        IF data[n].present THEN data[n]
        ELSE IF n = "Summary" THEN Present(<<>>) ELSE Absent]

\* C18: for every mapping D of collection names to record lists,
\* export_all_data() right after load_all_data(D) returns every collection of
\* D with the same records, no collection that D lacks, and nothing else
\* except the "Summary" placeholder.
C18_BulkRoundTrip ==
    outcome.op = "load_all_data" =>
        InMemory_export_all_data(all_browser_data, current_browser_id)
            = Loaded(outcome.data)

----------------------------------------------------------------------------
(* Python's float: IEEE 754 binary64, round to nearest, ties to even.  A   *)
(* float is kept as the number it is, (-1)^neg * m * 2^e with m odd (zero: *)
(* m empty, e = 0); m is a natural number of any size, written in base     *)
(* 2^12 with the least significant digit first.  Every operation computes  *)
(* the exact result and rounds it to 53 significant bits; infinities, NaN, *)
(* subnormals and the sign of zero are outside the values used here.       *)
(* The loops over the digits are recursive operators of their own; the     *)
(* other operations are the cases of one recursive operator, Arith, and    *)
(* the definitions before it give each case its name.                      *)

Base == 2^12

Max(a, b) == IF a >= b THEN a ELSE b
Min(a, b) == IF a <= b THEN a ELSE b

\* the digit of weight Base^(i-1)
Limb(a, i) == IF i <= Len(a) THEN a[i] ELSE 0

BIsOdd(a) == a # <<>> /\ a[1] % 2 = 1

Zero == [neg |-> FALSE, m |-> <<>>, e |-> 0]

\* a without its leading zero digits
RECURSIVE BTrim(_)
BTrim(a) ==
    IF a = <<>> \/ a[Len(a)] # 0 THEN a ELSE BTrim(SubSeq(a, 1, Len(a) - 1))

\* the digits of the int n >= 0
RECURSIVE BFromInt(_)
BFromInt(n) == IF n = 0 THEN <<>> ELSE <<n % Base>> \o BFromInt(n \div Base)

\* the digits of the number whose columns are cols (a column may exceed a
\* digit or be negative), c carried in
RECURSIVE BCarry(_, _)
BCarry(cols, c) ==
    IF cols = <<>> THEN BFromInt(c)
    ELSE <<(Head(cols) + c) % Base>>
           \o BCarry(Tail(cols), (Head(cols) + c) \div Base)

\* a < b, decided by the digits i and below
RECURSIVE BLessFrom(_, _, _)
BLessFrom(a, b, i) ==
    IF i = 0 THEN FALSE
    ELSE IF a[i] # b[i] THEN a[i] < b[i]
    ELSE BLessFrom(a, b, i - 1)

\* the column k of a * b, from the digit i of a on
RECURSIVE ColSum(_, _, _, _)
ColSum(a, b, k, i) ==
    IF i > Len(a) \/ i > k THEN 0
    ELSE (IF k + 1 - i <= Len(b) THEN a[i] * b[k + 1 - i] ELSE 0)
           + ColSum(a, b, k, i + 1)

\* quotient and remainder of a by a small k, the quotient with its
\* leading zero digits
RECURSIVE BDivRem(_, _)
BDivRem(a, k) ==
    IF a = <<>> THEN [q |-> <<>>, r |-> 0]
    ELSE LET hi  == BDivRem(Tail(a), k)
             cur == hi.r * Base + Head(a)
         IN [q |-> <<cur \div k>> \o hi.q, r |-> cur % k]

RECURSIVE Arith(_, _)

BAdd(a, b) == Arith("BAdd", <<a, b>>)
\* a - b for a >= b
BSub(a, b) == Arith("BSub", <<a, b>>)
BLess(a, b) == Arith("BLess", <<a, b>>)
BMul(a, b) == Arith("BMul", <<a, b>>)
\* a * k for a small k
BMulSmall(a, k) == Arith("BMulSmall", <<a, k>>)
BDivSmall(a, k) == Arith("BDivSmall", <<a, k>>)
\* a * 2^k
BShl(a, k) == Arith("BShl", <<a, k>>)
\* a \div 2^k, and whether a nonzero remainder was dropped
BShr(a, k) == Arith("BShr", <<a, k>>)
BitLen(a) == Arith("BitLen", <<a>>)
BPow(a, n) == Arith("BPow", <<a, n>>)
\* the quotient q of a division that left a half h and a rest below it,
\* rounded to nearest, ties to even
BNearest(sh) == Arith("BNearest", <<sh>>)

\* the float of the number (-1)^neg * m * 2^e, m of at most 53 bits
Float(neg, m, e) == Arith("Float", <<neg, m, e>>)
\* (-1)^neg * m * 2^e rounded to 53 significant bits, ties to even
Round53(neg, m, e) == Arith("Round53", <<neg, m, e>>)
\* float(n) of an int n
FromInt(n) == Arith("FromInt", <<n>>)
\* a + b
FAdd(a, b) == Arith("FAdd", <<a, b>>)
\* a - b
FSub(a, b) == Arith("FSub", <<a, b>>)
\* a * b
FMul(a, b) == Arith("FMul", <<a, b>>)
\* a / k for an int k > 0
FDivInt(a, k) == Arith("FDivInt", <<a, k>>)
\* a ** n for an int n >= 0
FPow(a, n) == Arith("FPow", <<a, n>>)
\* the decimal n / 10^k as a float literal
Dec(n, k) == Arith("Dec", <<n, k>>)
\* round(a, 2)
round2(a) == Arith("round2", <<a>>)

Arith(op, args) ==
    LET a == args[1]
        b == args[2]
        c == args[3]
        d == args[4]
    IN CASE op = "BAdd" ->
              BTrim(BCarry([i \in 1..Max(Len(a), Len(b)) |->
                              Limb(a, i) + Limb(b, i)], 0))
         [] op = "BSub" ->
              BTrim(BCarry([i \in 1..Max(Len(a), Len(b)) |->
                              Limb(a, i) - Limb(b, i)], 0))
         [] op = "BLess" ->
              IF Len(a) # Len(b) THEN Len(a) < Len(b)
              ELSE BLessFrom(a, b, Len(a))
         [] op = "BMul" ->
              IF a = <<>> \/ b = <<>> THEN <<>>
              ELSE BTrim(BCarry([k \in 1..(Len(a) + Len(b) - 1) |->
                                   ColSum(a, b, k, 1)], 0))
         [] op = "BMulSmall" ->
              BTrim(BCarry([i \in DOMAIN a |-> a[i] * b], 0))
         [] op = "BDivSmall" ->
              LET dr == BDivRem(a, b) IN [q |-> BTrim(dr.q), r |-> dr.r]
         [] op = "BShl" ->
              IF a = <<>> THEN a
              ELSE BMulSmall([i \in 1..(b \div 12) |-> 0] \o a, 2^(b % 12))
         [] op = "BShr" ->
              LET n    == Min(b \div 12, Len(a))
                  rest == BDivSmall(SubSeq(a, n + 1, Len(a)), 2^(b % 12))
              IN [q |-> rest.q,
                  sticky |-> rest.r # 0 \/ \E i \in 1..n : a[i] # 0]
         [] op = "BitLen" ->
              IF a = <<>> THEN 0
              ELSE 12 * (Len(a) - 1)
                     + (CHOOSE n \in 1..12 :
                           2^(n - 1) <= a[Len(a)] /\ a[Len(a)] < 2^n)
         [] op = "BPow" ->
              IF b = 0 THEN <<1>> ELSE BMul(a, BPow(a, b - 1))
         [] op = "BNearest" ->
              \* a.q holds the quotient and, as its last bit, the half
              LET q  == BDivSmall(a.q, 2).q
                  up == BIsOdd(a.q) /\ (a.sticky \/ BIsOdd(q))
              IN IF up THEN BAdd(q, <<1>>) ELSE q
         [] op = "Float" ->
              IF b = <<>> THEN Zero
              ELSE LET n   == CHOOSE i \in 1..Len(b) :
                                 b[i] # 0 /\ \A j \in 1..(i - 1) : b[j] = 0
                       low == SubSeq(b, n, Len(b))
                       t   == CHOOSE j \in 0..11 : low[1] % 2^(j + 1) = 2^j
                   IN [neg |-> a, m |-> BDivSmall(low, 2^t).q,
                       e |-> c + 12 * (n - 1) + t]
         [] op = "Round53" ->
              IF BitLen(b) <= 53 THEN Float(a, b, c)
              ELSE LET s == BitLen(b) - 53
                   IN Float(a, BNearest(BShr(b, s - 1)), c + s)
         [] op = "FromInt" ->
              Float(a < 0, BFromInt(IF a < 0 THEN -a ELSE a), 0)
         [] op = "FAdd" ->
              LET e0 == Min(a.e, b.e)
                  ma == BShl(a.m, a.e - e0)
                  mb == BShl(b.m, b.e - e0)
              IN IF a.neg = b.neg THEN Round53(a.neg, BAdd(ma, mb), e0)
                 ELSE IF BLess(ma, mb) THEN Round53(b.neg, BSub(mb, ma), e0)
                 ELSE Round53(a.neg, BSub(ma, mb), e0)
         [] op = "FSub" ->
              FAdd(a, IF b.m = <<>> THEN b ELSE [b EXCEPT !.neg = ~b.neg])
         [] op = "FMul" ->
              Round53(a.neg # b.neg, BMul(a.m, b.m), a.e + b.e)
         [] op = "FDivInt" ->
              \* the quotient to 84 more bits, its last bit set when the
              \* division left a remainder
              LET dr == BDivSmall(BShl(a.m, 84), b)
              IN Round53(a.neg,
                         BAdd(BMulSmall(dr.q, 2),
                              IF dr.r # 0 THEN <<1>> ELSE <<>>),
                         a.e - 85)
         [] op = "FPow" ->
              Round53(a.neg /\ b % 2 = 1, BPow(a.m, b), a.e * b)
         [] op = "Dec" ->
              FDivInt(FromInt(a), 10^b)
         [] op = "round2" ->
              \* the exact value rounded to hundredths, ties to even, and
              \* the float nearest to that decimal
              IF a.e >= 0 THEN a
              ELSE FDivInt([neg |-> a.neg,
                            m |-> BNearest(BShr(BMulSmall(a.m, 100), (-a.e) - 1)),
                            e |-> 0], 100)

\* a > 0
FPositive(a) == a.m # <<>> /\ ~a.neg

----------------------------------------------------------------------------
(* Aggregation engine: calculate_portfolio_summary_from_data (routes.py)   *)
(* A record is a function from its field names to cells, the values JSON   *)
(* gives: a number, a string, null, or an int too large for a float.       *)

Num(f) == [t |-> "number", v |-> f]
Str(s) == [t |-> "string", s |-> s]
Null == [t |-> "null"]
\* an int of 400 digits
HugeInt == [t |-> "int", digits |-> 400]

Ok(v) == [ok |-> TRUE, v |-> v]
Raise(exc) == [ok |-> FALSE, exc |-> exc]

\* the strings float() accepts, among those used here: the digits and the
\* number of decimals of each
NumericStrings == ("5" :> <<5, 0>>) @@ ("2.5" :> <<25, 1>>)

\* float(x): the float, or the exception raised
float(x) ==
    CASE x.t = "number" -> Ok(x.v)
      [] x.t = "int"    -> Raise("OverflowError")
      [] x.t = "string" -> IF x.s \in DOMAIN NumericStrings
                           THEN Ok(Dec(NumericStrings[x.s][1],
                                       NumericStrings[x.s][2]))
                           ELSE Raise("ValueError")
      [] OTHER          -> Raise("TypeError")

\* bool(x) is False
falsy(x) ==
    \/ x.t = "null"
    \/ x.t = "number" /\ x.v = Zero
    \/ x.t = "string" /\ x.s = ""

\* row.get(key, 0) or 0
get_or_0(row, key) ==
    LET x == IF key \in DOMAIN row THEN row[key] ELSE Num(Zero)
    IN IF falsy(x) THEN Num(Zero) ELSE x

\* except (ValueError, TypeError): pass
Caught == {"ValueError", "TypeError"}
Handled(exc, acc) == [acc |-> acc, exc |-> IF exc \in Caught THEN "none" ELSE exc]
Added(acc) == [acc |-> acc, exc |-> "none"]

\* the branch of each sheet: the summary field it adds to, and the fields of
\* a row it reads
SheetRule ==
    ("Mutual Funds" :> [key |-> "mutual_funds", kind |-> "product",
                        f1 |-> "units", f2 |-> "current_nav"])
 @@ ("Stocks" :> [key |-> "stocks", kind |-> "product",
                  f1 |-> "quantity", f2 |-> "current_price"])
 @@ ("Real Estate" :> [key |-> "real_estate", kind |-> "difference",
                       f1 |-> "current_value", f2 |-> "loan_outstanding"])
 @@ ("Gold" :> [key |-> "gold", kind |-> "product",
                f1 |-> "weight_grams", f2 |-> "current_price_per_gram"])
 @@ ("Silver" :> [key |-> "silver", kind |-> "product",
                  f1 |-> "weight_grams", f2 |-> "current_price_per_gram"])
 @@ ("Bank Accounts" :> [key |-> "bank_balance", kind |-> "single",
                         f1 |-> "balance", f2 |-> "balance"])
 @@ ("Fixed Deposits" :> [key |-> "fixed_deposits", kind |-> "single",
                          f1 |-> "principal_amount", f2 |-> "principal_amount"])
 @@ ("NPS Accounts" :> [key |-> "nps", kind |-> "two",
                        f1 |-> "tier1_balance", f2 |-> "tier2_balance"])
 @@ ("PPF" :> [key |-> "ppf", kind |-> "single",
               f1 |-> "current_balance", f2 |-> "current_balance"])
 @@ ("EPF" :> [key |-> "epf", kind |-> "single",
               f1 |-> "total_balance", f2 |-> "total_balance"])
 @@ ("Insurance Policies" :> [key |-> "insurance_cover", kind |-> "single",
                              f1 |-> "sum_assured", f2 |-> "sum_assured"])
 @@ ("Credit Cards" :> [key |-> "credit_card_outstanding", kind |-> "single",
                        f1 |-> "outstanding_balance", f2 |-> "outstanding_balance"])
 @@ ("Loans" :> [key |-> "loans_outstanding", kind |-> "single",
                 f1 |-> "outstanding_amount", f2 |-> "outstanding_amount"])

Sheets == DOMAIN SheetRule

\* the try block of one row, a and b being float() of its two fields: the
\* total after the row, and the exception that leaves the function
add_cells(kind, a, b, acc) ==
    CASE kind = "single" ->
           IF a.ok THEN Added(FAdd(acc, a.v)) ELSE Handled(a.exc, acc)
      [] kind = "product" ->
           IF ~a.ok THEN Handled(a.exc, acc)
           ELSE IF ~b.ok THEN Handled(b.exc, acc)
           ELSE Added(FAdd(acc, FMul(a.v, b.v)))
      [] kind = "difference" ->
           IF ~a.ok THEN Handled(a.exc, acc)
           ELSE IF ~b.ok THEN Handled(b.exc, acc)
           ELSE Added(FAdd(acc, FSub(a.v, b.v)))
      [] kind = "two" ->
           \* two statements in one try: the first has added when the
           \* second raises
           IF ~a.ok THEN Handled(a.exc, acc)
           ELSE IF ~b.ok THEN Handled(b.exc, FAdd(acc, a.v))
           ELSE Added(FAdd(FAdd(acc, a.v), b.v))

\* the body of the loop over the rows of a sheet
add_row(rule, row, acc) ==
    add_cells(rule.kind, float(get_or_0(row, rule.f1)),
              float(get_or_0(row, rule.f2)), acc)

RECURSIVE add_rows(_, _, _)
add_rows(rule, items, acc) ==
    IF items = <<>> THEN Added(acc)
    ELSE LET r == add_row(rule, Head(items), acc)
         IN IF r.exc # "none" THEN r ELSE add_rows(rule, Tail(items), r.acc)

\* the total of one sheet as it would be if the records of 'Net Worth
\* History' were not skipped but counted with the bank accounts
sheet_total_with_history(all_data, sheet) ==
    IF sheet = "Bank Accounts"
    THEN add_rows(SheetRule[sheet],
                  (IF sheet \in DOMAIN all_data THEN all_data[sheet] ELSE <<>>)
                    \o (IF "Net Worth History" \in DOMAIN all_data
                        THEN all_data["Net Worth History"] ELSE <<>>),
                  Zero)
    ELSE IF sheet \in DOMAIN all_data /\ all_data[sheet] # <<>>
    THEN add_rows(SheetRule[sheet], all_data[sheet], Zero)
    ELSE Added(Zero)

\* the total of one sheet: 'Summary', 'Net Worth History' and the sheets that
\* are absent or empty are skipped, and a sheet of another name has no
\* branch
sheet_total(all_data, sheet) ==
    IF sheet \in DOMAIN all_data /\ all_data[sheet] # <<>>
    THEN add_rows(SheetRule[sheet], all_data[sheet], Zero)
    ELSE Added(Zero)

AssetKeys == <<"mutual_funds", "stocks", "real_estate", "gold", "silver",
               "bank_balance", "fixed_deposits", "nps", "ppf", "epf">>

RECURSIVE sum_keys(_, _, _)
sum_keys(summary, keys, acc) ==
    IF keys = <<>> THEN acc
    ELSE sum_keys(summary, Tail(keys), FAdd(acc, summary[Head(keys)]))

total_assets_with_cover(summary) ==
    FAdd(sum_keys(summary, Tail(AssetKeys), summary[Head(AssetKeys)]),
         summary["insurance_cover"])
\* summary['total_assets']
total_assets(summary) ==
    sum_keys(summary, Tail(AssetKeys), summary[Head(AssetKeys)])

\* summary['total_liabilities']
total_liabilities(summary) ==
    FAdd(summary["loans_outstanding"], summary["credit_card_outstanding"])

net_worth_sum(assets, liabilities) == FAdd(assets, liabilities)
\* summary['net_worth']
net_worth(assets, liabilities) == FSub(assets, liabilities)

\* the loop over the sheets: each sheet's total and the exception it raised
sheet_totals(all_data) == [s \in Sheets |-> sheet_total(all_data, s)]

summary_fields_without_cover(per_sheet) ==
    [k \in {SheetRule[s].key : s \in Sheets} \ {"insurance_cover"} |->
        per_sheet[CHOOSE s \in Sheets : SheetRule[s].key = k].acc]
\* the summary fields, each 0 at first, that the loop has filled
summary_fields(per_sheet) ==
    [k \in {SheetRule[s].key : s \in Sheets} |->
        per_sheet[CHOOSE s \in Sheets : SheetRule[s].key = k].acc]

\* the summary with its three totals
totalled(summary, assets, liabilities) ==
    summary @@ [total_assets |-> assets,
                total_liabilities |-> liabilities,
                net_worth |-> net_worth(assets, liabilities)]

with_totals(summary) ==
    totalled(summary, total_assets(summary), total_liabilities(summary))

\* the summary, or the exception that left the loop
summary_or_raise(per_sheet) ==
    IF \E s \in Sheets : per_sheet[s].exc # "none"
    THEN Raise(per_sheet[CHOOSE s \in Sheets : per_sheet[s].exc # "none"].exc)
    ELSE Ok(with_totals(summary_fields(per_sheet)))

calculate_portfolio_summary_from_data(all_data) ==
    summary_or_raise(sheet_totals(all_data))

\* the keys of the snapshot dict besides record_date
SnapshotKeys == {"mutual_funds", "stocks", "real_estate", "gold", "silver",
                 "bank_balance", "nps", "ppf", "epf",
                 "total_assets", "total_liabilities", "net_worth"}

\* the snapshot dict of save_networth_snapshot and api_create_snapshot
snapshot_of(record_date, summary) ==
    [k \in SnapshotKeys \cup {"record_date"} |->
        IF k = "record_date" THEN record_date ELSE round2(summary[k])]

----------------------------------------------------------------------------
(* Forecast engine: calculate_future_value and generate_forecast           *)
(* (api_services.py), build_forecast_assets (routes.py), DEFAULT_RETURNS   *)
(* (models.py).  The assets dict is the sequence of its items in insertion *)
(* order, each a label and an info dict.                                   *)

calculate_future_value_simple(present_value, annual_return, years) ==
    FMul(present_value,
         FAdd(FromInt(1), FDivInt(FMul(annual_return, FromInt(years)), 100)))
\* present_value * ((1 + annual_return / 100) ** years)
calculate_future_value(present_value, annual_return, years) ==
    FMul(present_value,
         FPow(FAdd(FromInt(1), FDivInt(annual_return, 100)), years))

\* asset_info.get(key, default), the default an int
info_get(asset_info, key, default) ==
    IF key \in DOMAIN asset_info THEN asset_info[key] ELSE FromInt(default)

\* future_val of each asset in one year
future_vals(assets, year) ==
    [i \in DOMAIN assets |->
        calculate_future_value(info_get(assets[i].info, "value", 0),
                               info_get(assets[i].info, "expected_return", 8),
                               year)]

\* total after total += future_val over the assets
RECURSIVE total_of(_, _)
total_of(vals, acc) ==
    IF vals = <<>> THEN acc ELSE total_of(Tail(vals), FAdd(acc, Head(vals)))

\* an int as a value of a row
IntVal(n) == [t |-> "int", n |-> n]

\* year_data: 'year' is set first, then every asset's entry, then 'total',
\* each replacing an entry of the same key
year_data(assets, year, vals) ==
    [k \in {"year", "total"} \cup {assets[i].name : i \in DOMAIN assets} |->
        IF k = "total" THEN round2(total_of(vals, Zero))
        ELSE IF \E i \in DOMAIN assets : assets[i].name = k
        THEN round2(vals[CHOOSE i \in DOMAIN assets : assets[i].name = k])
        ELSE IntVal(year)]

generate_forecast_exclusive(assets, years) ==
    [y \in 1..years |->
        CHOOSE row \in {year_data(assets, y - 1, vals) :
                          vals \in {future_vals(assets, y - 1)}} : TRUE]
\* projections, for years >= -1
generate_forecast(assets, years) ==
    [y \in 1..(years + 1) |->
        CHOOSE row \in {year_data(assets, y - 1, vals) :
                          vals \in {future_vals(assets, y - 1)}} : TRUE]

\* the digits and the number of decimals of each default
DEFAULT_RETURNS ==
    [mutual_fund_equity |-> <<120, 1>>, mutual_fund_debt |-> <<70, 1>>,
     mutual_fund_hybrid |-> <<100, 1>>, stocks |-> <<120, 1>>,
     real_estate |-> <<80, 1>>, gold |-> <<80, 1>>, silver |-> <<70, 1>>,
     nps |-> <<100, 1>>, ppf |-> <<71, 1>>, epf |-> <<825, 2>>,
     fd |-> <<70, 1>>, savings |-> <<35, 1>>]

\* the lines of build_forecast_assets in order: the label, the summary
\* field, the sheet and the field of its records that hold the rates
\* ("none": the line always takes the default), and the default
ForecastLines ==
    << [label |-> "Mutual Funds", key |-> "mutual_funds", sheet |-> "Mutual Funds",
        rate |-> "expected_return", default |-> "mutual_fund_equity"],
       [label |-> "Stocks", key |-> "stocks", sheet |-> "Stocks",
        rate |-> "expected_return", default |-> "stocks"],
       [label |-> "Real Estate", key |-> "real_estate", sheet |-> "Real Estate",
        rate |-> "appreciation_rate", default |-> "real_estate"],
       [label |-> "Gold", key |-> "gold", sheet |-> "Gold",
        rate |-> "expected_return", default |-> "gold"],
       [label |-> "Silver", key |-> "silver", sheet |-> "Silver",
        rate |-> "expected_return", default |-> "silver"],
       [label |-> "Bank Balance", key |-> "bank_balance", sheet |-> "Bank Accounts",
        rate |-> "none", default |-> "savings"],
       [label |-> "NPS", key |-> "nps", sheet |-> "NPS Accounts",
        rate |-> "expected_return", default |-> "nps"],
       [label |-> "PPF", key |-> "ppf", sheet |-> "PPF",
        rate |-> "none", default |-> "ppf"],
       [label |-> "EPF", key |-> "epf", sheet |-> "EPF",
        rate |-> "none", default |-> "epf"] >>

\* [float(r.get(field, 0) or 0) for r in items if r.get(field)]
RECURSIVE returns_of(_, _)
returns_of(items, field) ==
    IF items = <<>> THEN <<>>
    ELSE IF field \in DOMAIN Head(items) /\ ~falsy(Head(items)[field])
    THEN <<float(Head(items)[field])>> \o returns_of(Tail(items), field)
    ELSE returns_of(Tail(items), field)

\* sum(returns)
RECURSIVE sum_of(_, _)
sum_of(returns, acc) ==
    IF returns = <<>> THEN acc
    ELSE sum_of(Tail(returns), FAdd(acc, Head(returns).v))

\* avg_return of a line whose records hold the rates returns
avg_return(returns, default) ==
    IF \E i \in DOMAIN returns : ~returns[i].ok
    THEN Raise(returns[CHOOSE i \in DOMAIN returns :
                          ~returns[i].ok /\ \A j \in 1..(i - 1) : returns[j].ok].exc)
    ELSE IF returns = <<>>
    THEN Ok(Dec(DEFAULT_RETURNS[default][1], DEFAULT_RETURNS[default][2]))
    ELSE Ok(FDivInt(sum_of(returns, Zero), Len(returns)))

\* all_data.get(sheet, [])
items_of(all_data, sheet) ==
    IF sheet \in DOMAIN all_data THEN all_data[sheet] ELSE <<>>

\* the avg_return of each line
line_returns(all_data) ==
    [i \in DOMAIN ForecastLines |->
        avg_return(IF ForecastLines[i].rate = "none" THEN <<>>
                   ELSE returns_of(items_of(all_data, ForecastLines[i].sheet),
                                   ForecastLines[i].rate),
                   ForecastLines[i].default)]

\* the items of assets: the lines whose summary field is positive
RECURSIVE assets_from(_, _, _)
assets_from(summary, rates, i) ==
    IF i > Len(ForecastLines) THEN <<>>
    ELSE (IF FPositive(summary[ForecastLines[i].key])
          THEN <<[name |-> ForecastLines[i].label,
                  info |-> [value |-> summary[ForecastLines[i].key],
                            expected_return |-> rates[i].v]]>>
          ELSE <<>>) \o assets_from(summary, rates, i + 1)

\* the line raises: a line whose summary field is not positive is skipped
line_raises(summary, rates, i) ==
    FPositive(summary[ForecastLines[i].key]) /\ ~rates[i].ok

\* the assets, or the exception of the first line that raises
assets_or_raise(summary, rates) ==
    IF \E i \in DOMAIN rates : line_raises(summary, rates, i)
    THEN Raise(rates[CHOOSE i \in DOMAIN rates :
                        /\ line_raises(summary, rates, i)
                        /\ \A j \in 1..(i - 1) : ~line_raises(summary, rates, j)].exc)
    ELSE Ok(assets_from(summary, rates, 1))

build_forecast_assets(all_data, summary) ==
    assets_or_raise(summary, line_returns(all_data))

----------------------------------------------------------------------------
(* SpecCalc: the stateless endpoints and the two functions of the         *)
(* forecast engine.  Each takes its data from the request and answers with *)
(* what the aggregation and forecast engines compute from it; the stores   *)
(* and the selector are left alone.  outcome holds the request or the call *)
(* until it is answered.                                                   *)

Missing == [t |-> "missing"]
CellVals == {Num(FromInt(2)), Str("5"), Str("abc"), Str(""), Null, HugeInt, Missing}

\* the row of a sheet whose two fields hold c1 and c2
RowWith(rule, c1, c2) ==
    [f \in (IF c1 = Missing THEN {} ELSE {rule.f1})
             \cup (IF c2 = Missing \/ rule.f2 = rule.f1 THEN {} ELSE {rule.f2}) |->
        IF f = rule.f1 THEN c1 ELSE c2]

GoodRow(rule) == RowWith(rule, Num(FromInt(3)), Num(FromInt(2)))

RowsOf(sheet) ==
    LET rule == SheetRule[sheet]
    IN {RowWith(rule, c1, c2) :
          c1 \in CellVals,
          c2 \in IF rule.f2 = rule.f1 THEN {Missing} ELSE CellVals}

RowLists(sheet) ==
    {<<>>} \cup {<<r>> : r \in RowsOf(sheet)}
           \cup {<<r, GoodRow(SheetRule[sheet])>> : r \in RowsOf(sheet)}

\* every sheet with one row
FullData == [s \in Sheets |-> <<GoodRow(SheetRule[s])>>]
EmptyData == [s \in {} |-> <<>>]

\* the request bodies: one sheet alone, one sheet among the others, no
\* sheet, and sheets the summary does not read
DataInputs ==
    UNION {{s :> rl : rl \in RowLists(s)} : s \in Sheets}
      \cup UNION {{(s :> rl) @@ FullData : rl \in RowLists(s)} : s \in Sheets}
      \cup {EmptyData, [s \in Sheets |-> <<>>]}
      \cup {n :> <<[balance |-> Num(FromInt(2))]>> :
              n \in {"Summary", "Net Worth History", "X"}}
      \cup {(n :> <<[balance |-> Num(FromInt(2))]>>) @@ FullData :
              n \in {"Summary", "Net Worth History", "X"}}

\* horizons of the forecasts
MaxYears == 2

\* the values a rate field holds
RateVals == {Num(Dec(d[1], d[2])) : d \in {<<10, 0>>, <<0, 0>>}}
              \cup {Missing, Str("5"), Str("abc"), Null}

\* a well-formed record of the sheet whose rate field holds c
RatedRow(line, c) ==
    IF c = Missing THEN GoodRow(SheetRule[line.sheet])
    ELSE ((IF line.rate = "none" THEN "interest_rate" ELSE line.rate) :> c)
           @@ GoodRow(SheetRule[line.sheet])

\* the payloads of the forecast: the records of one line, one or two of
\* them, alone or among the other sheets, and no sheet
ForecastInputs ==
    UNION {{[data |-> data, years |-> years] :
              data \in {line.sheet :> <<RatedRow(line, c1)>> : c1 \in RateVals}
                 \cup {line.sheet :> <<RatedRow(line, c1), RatedRow(line, c2)>> :
                          c1 \in RateVals, c2 \in RateVals},
              years \in 0..MaxYears} :
           line \in {ForecastLines[i] : i \in DOMAIN ForecastLines}}
      \cup {[data |-> data, years |-> MaxYears] : data \in {EmptyData, FullData}}

\* the arguments of calculate_future_value
PresentValues == {Dec(d[1], d[2]) : d \in {<<1000, 0>>, <<1, 0>>, <<125, 3>>, <<0, 0>>}}
Rates == {Dec(d[1], d[2]) : d \in {<<10, 0>>, <<0, 0>>, <<1, 0>>, <<71, 1>>, <<-50, 0>>}}
FutureValueInputs ==
    [present_value : PresentValues, annual_return : Rates, years : 0..MaxYears]

\* the arguments of generate_forecast: info dicts with and without their
\* keys, under labels that are and are not keys of a row
Infos ==
    UNION {{[value |-> v, expected_return |-> r], [value |-> v],
            [expected_return |-> r]} :
           v \in {Dec(d[1], d[2]) : d \in {<<1000, 0>>, <<125, 3>>}},
           r \in {Dec(d[1], d[2]) : d \in {<<10, 0>>, <<0, 0>>}}}
AssetLists ==
    {<<>>}
      \cup {<<[name |-> n, info |-> a]>> : n \in {"A", "year", "total"}, a \in Infos}
      \cup {<<[name |-> "A", info |-> a], [name |-> "B", info |-> b]>> :
               a \in Infos, b \in Infos}
GenerateInputs == [assets : AssetLists, years : 0..MaxYears]

Answered(op, data, result) == [op |-> op, data |-> data, result |-> result]

\* a payload or a call waiting for its answer
Waiting(op, data) == Answered(op, data, Raise("none"))

\* the request waiting for its answer
Request(data) == Answered("request", data, Raise("none"))

InitCalc ==
    /\ obj = "none"
    /\ xlFile = NoFile
    /\ all_browser_data = [s \in Scopes |-> NoStore]
    /\ current_browser_id = "None"
    /\ fsdocs = [n \in Names |-> NoDocs]
    /\ config = NoConfig
    /\ storage_instance = NoInstance
    /\ fbApp = FALSE
    /\ libInstalled = TRUE
    /\ nextId = 1
    /\ outcome \in {Request(data) : data \in DataInputs}
                     \cup {Waiting("forecast_request", p) : p \in ForecastInputs}
                     \cup {Waiting("calculate_future_value_call", a) :
                              a \in FutureValueInputs}
                     \cup {Waiting("generate_forecast_call", a) :
                              a \in GenerateInputs}
    /\ pc = [r \in Requests |-> "idle"]
    /\ loc = [r \in Requests |-> NoLocal]

\* POST /api/calculate-summary
api_calculate_summary ==
    /\ outcome.op = "request"
    /\ outcome' = Answered("api_calculate_summary", outcome.data,
                           calculate_portfolio_summary_from_data(outcome.data))
    /\ UNCHANGED <<obj, storeVars, selVars, concVars>>

\* POST /api/create-snapshot
api_create_snapshot(today) ==
    /\ outcome.op = "request"
    /\ \E r \in {calculate_portfolio_summary_from_data(outcome.data)} :
          outcome' = Answered("api_create_snapshot", outcome.data,
                              IF r.ok THEN Ok(snapshot_of(today, r.v)) ELSE r)
    /\ UNCHANGED <<obj, storeVars, selVars, concVars>>

\* POST /api/calculate-forecast
api_calculate_forecast ==
    /\ outcome.op = "forecast_request"
    /\ \E summary \in {calculate_portfolio_summary_from_data(outcome.data.data)} :
       \E assets \in {IF summary.ok
                       THEN build_forecast_assets(outcome.data.data, summary.v)
                       ELSE summary} :
          outcome' = Answered("api_calculate_forecast", outcome.data,
                        IF ~assets.ok THEN assets
                        ELSE Ok([summary |-> summary.v,
                                 assets |-> assets.v,
                                 projections |->
                                     generate_forecast(assets.v, outcome.data.years)]))
    /\ UNCHANGED <<obj, storeVars, selVars, concVars>>

\* a call of api_services.calculate_future_value
call_calculate_future_value ==
    /\ outcome.op = "calculate_future_value_call"
    /\ outcome' = Answered("calculate_future_value", outcome.data,
                           Ok(calculate_future_value(outcome.data.present_value,
                                                     outcome.data.annual_return,
                                                     outcome.data.years)))
    /\ UNCHANGED <<obj, storeVars, selVars, concVars>>

\* a call of api_services.generate_forecast
call_generate_forecast ==
    /\ outcome.op = "generate_forecast_call"
    /\ outcome' = Answered("generate_forecast", outcome.data,
                           Ok(generate_forecast(outcome.data.assets,
                                                outcome.data.years)))
    /\ UNCHANGED <<obj, storeVars, selVars, concVars>>

NextCalc ==
    \/ api_calculate_summary
    \/ api_create_snapshot("d1")
    \/ api_calculate_forecast
    \/ call_calculate_future_value
    \/ call_generate_forecast

SpecCalc == InitCalc /\ [][NextCalc]_vars

\* the thirteen category fields of the summary, and all sixteen fields
CategoryKeys == {SheetRule[s].key : s \in Sheets}
SummaryKeys == CategoryKeys \cup {"total_assets", "total_liabilities", "net_worth"}

\* the request was answered by op without an exception
AnsweredOk(op) == outcome.op = op /\ outcome.result.ok

(* C21: the row that snapshot creation produces carries the date and the   *)
(* rounded value of every field of the summary it was computed from: the   *)
(* thirteen category totals, fixed_deposits, insurance_cover,              *)
(* credit_card_outstanding and loans_outstanding among them, and           *)
(* total_assets, total_liabilities and net_worth.                          *)
C21_SnapshotCarriesEveryTotal ==
    AnsweredOk("api_create_snapshot") =>
        \E r \in {calculate_portfolio_summary_from_data(outcome.data)} :
            /\ "record_date" \in DOMAIN outcome.result.v
            /\ \A k \in SummaryKeys :
                  /\ k \in DOMAIN outcome.result.v
                  /\ outcome.result.v[k] = round2(r.v[k])

(* C23: every summary that calculate_portfolio_summary_from_data returns   *)
(* has net_worth = total_assets - total_liabilities.                       *)
C23_NetWorthIsAssetsLessLiabilities ==
    AnsweredOk("api_calculate_summary") =>
        outcome.result.v["net_worth"]
            = FSub(outcome.result.v["total_assets"],
                   outcome.result.v["total_liabilities"])

\* a summary with assets and with liabilities
C23_Witness ==
    /\ AnsweredOk("api_calculate_summary")
    /\ FPositive(outcome.result.v["total_assets"])
    /\ FPositive(outcome.result.v["total_liabilities"])

\* the contribution of one record according to the table of contributions
Contribution(sheet, row) ==
    CASE sheet = "Mutual Funds" -> FMul(row["units"].v, row["current_nav"].v)
      [] sheet = "Stocks" -> FMul(row["quantity"].v, row["current_price"].v)
      [] sheet = "Real Estate" ->
           FSub(row["current_value"].v, row["loan_outstanding"].v)
      [] sheet \in {"Gold", "Silver"} ->
           FMul(row["weight_grams"].v, row["current_price_per_gram"].v)
      [] sheet = "Bank Accounts" -> row["balance"].v
      [] sheet = "Fixed Deposits" -> row["principal_amount"].v
      [] sheet = "NPS Accounts" ->
           FAdd(row["tier1_balance"].v, row["tier2_balance"].v)
      [] sheet = "PPF" -> row["current_balance"].v
      [] sheet = "EPF" -> row["total_balance"].v
      [] sheet = "Insurance Policies" -> row["sum_assured"].v
      [] sheet = "Credit Cards" -> row["outstanding_balance"].v
      [] sheet = "Loans" -> row["outstanding_amount"].v

RECURSIVE TableSum(_, _)
TableSum(sheet, rows) ==
    IF rows = <<>> THEN Zero
    ELSE FAdd(Contribution(sheet, Head(rows)), TableSum(sheet, Tail(rows)))

\* every field the table names is a number in every record
WellFormed(sheet, rows) ==
    \A i \in DOMAIN rows : \A f \in {SheetRule[sheet].f1, SheetRule[sheet].f2} :
        f \in DOMAIN rows[i] /\ rows[i][f].t = "number"

RECURSIVE SumOver(_, _)
SumOver(summary, keys) ==
    IF keys = <<>> THEN Zero
    ELSE FAdd(SumOver(summary, SubSeq(keys, 1, Len(keys) - 1)),
              summary[keys[Len(keys)]])

\* the data without one collection
Without(data, sheet) == [s \in DOMAIN data \ {sheet} |-> data[s]]

(* C24: in every summary total_assets is the sum of the ten asset totals   *)
(* (mutual_funds, stocks, real_estate, gold, silver, bank_balance,         *)
(* fixed_deposits, nps, ppf, epf), total_liabilities is loans_outstanding  *)
(* + credit_card_outstanding, the insurance policies change neither        *)
(* total_assets nor net_worth, and the total of a collection of            *)
(* well-formed records is the sum the table of contributions gives.        *)
C24_TotalsAreTheTableSums ==
    AnsweredOk("api_calculate_summary") =>
        \E v \in {outcome.result.v},
           u \in {calculate_portfolio_summary_from_data(
                     Without(outcome.data, "Insurance Policies"))} :
            /\ v["total_assets"] = SumOver(v, AssetKeys)
            /\ v["total_liabilities"]
                  = FAdd(v["loans_outstanding"], v["credit_card_outstanding"])
            /\ u.ok
            /\ u.v["total_assets"] = v["total_assets"]
            /\ u.v["net_worth"] = v["net_worth"]
            /\ \A s \in DOMAIN outcome.data \cap Sheets :
                  WellFormed(s, outcome.data[s])
                      => v[SheetRule[s].key] = TableSum(s, outcome.data[s])

\* a summary of assets, liabilities and an insurance cover, all from
\* well-formed records
C24_Witness ==
    /\ AnsweredOk("api_calculate_summary")
    /\ FPositive(outcome.result.v["insurance_cover"])
    /\ FPositive(outcome.result.v["real_estate"])
    /\ FPositive(outcome.result.v["nps"])
    /\ FPositive(outcome.result.v["total_liabilities"])
    /\ \A s \in Sheets : s \in DOMAIN outcome.data
                            /\ WellFormed(s, outcome.data[s])

\* the number a field of a record counts for: zero when it is missing or
\* cannot be coerced
Coerced(row, f) ==
    IF float(get_or_0(row, f)).ok THEN float(get_or_0(row, f)).v ELSE Zero

\* the record with every field the table names coerced
ZeroFilled(sheet, row) ==
    [f \in {SheetRule[sheet].f1, SheetRule[sheet].f2} |-> Num(Coerced(row, f))]

(* C25: calculate_portfolio_summary_from_data returns a summary for every  *)
(* mapping from collection names to records whose fields are numbers,      *)
(* strings, null or missing; a field that cannot be coerced counts as zero *)
(* in its record, and every other field and record counts with its value.  *)
C25_SummarizeNeverFails ==
    outcome.op = "api_calculate_summary" =>
        /\ outcome.result.ok
        /\ \A s \in DOMAIN outcome.data \cap Sheets :
              outcome.result.v[SheetRule[s].key]
                  = TableSum(s, [i \in DOMAIN outcome.data[s] |->
                                   ZeroFilled(s, outcome.data[s][i])])

\* the sum over the records of what field f counts for
RECURSIVE FieldSum(_, _)
FieldSum(rows, f) ==
    IF rows = <<>> THEN Zero
    ELSE FAdd(FieldSum(SubSeq(rows, 1, Len(rows) - 1), f), Coerced(rows[Len(rows)], f))

(* C36: the nps total is the sum of the tier1_balance values that can be   *)
(* coerced plus the sum of the tier2_balance values that can be coerced,   *)
(* over all records of 'NPS Accounts': a record with one malformed tier    *)
(* field still contributes its other field, whichever of the two is        *)
(* malformed.                                                              *)
C36_NpsPerField ==
    (AnsweredOk("api_calculate_summary") /\ "NPS Accounts" \in DOMAIN outcome.data)
        => outcome.result.v["nps"]
              = FAdd(FieldSum(outcome.data["NPS Accounts"], "tier1_balance"),
                     FieldSum(outcome.data["NPS Accounts"], "tier2_balance"))

\* the collections the summary is not computed from
Unread(data) == DOMAIN data \ Sheets

\* the data with other records in the collections the summary is not
\* computed from, and the data without these collections
OtherHistory(data) ==
    [s \in DOMAIN data |->
        IF s \in Sheets THEN data[s]
        ELSE <<[balance |-> Num(FromInt(3))], [record_date |-> Str("5")]>>]
NoHistory(data) == [s \in DOMAIN data \cap Sheets |-> data[s]]

(* C39: the summary does not depend on history: mappings that differ only  *)
(* in the contents of 'Net Worth History', 'Summary' or a collection whose  *)
(* name is not in the table of contributions have the same summary, so     *)
(* that creating, deleting or purging snapshots leaves the next summary as *)
(* it was.                                                                 *)
C39_SummaryIgnoresHistory ==
    outcome.op = "api_calculate_summary" =>
        /\ outcome.result = calculate_portfolio_summary_from_data(NoHistory(outcome.data))
        /\ outcome.result = calculate_portfolio_summary_from_data(OtherHistory(outcome.data))

\* a summary with positive totals was computed from data that hold a
\* snapshot in 'Net Worth History'
C39_Witness ==
    /\ AnsweredOk("api_calculate_summary")
    /\ "Net Worth History" \in Unread(outcome.data)
    /\ outcome.data["Net Worth History"] # <<>>
    /\ FPositive(outcome.result.v["bank_balance"])
    /\ FPositive(outcome.result.v["net_worth"])

(* C26: the summary of a mapping in which every collection is absent or    *)
(* empty has sixteen fields and all of them are zero, net_worth included.  *)
C26_EmptyDataGivesZeros ==
    (/\ outcome.op = "api_calculate_summary"
     /\ \A s \in DOMAIN outcome.data : outcome.data[s] = <<>>)
        => /\ outcome.result.ok
           /\ DOMAIN outcome.result.v = SummaryKeys
           /\ Cardinality(SummaryKeys) = 16
           /\ \A k \in SummaryKeys : outcome.result.v[k] = Zero

\* a summary of a mapping that has an empty collection and lacks others
C26_Witness ==
    /\ AnsweredOk("api_calculate_summary")
    /\ \E s \in Sheets : s \in DOMAIN outcome.data /\ outcome.data[s] = <<>>
    /\ \E s \in Sheets : s \notin DOMAIN outcome.data
    /\ \A s \in DOMAIN outcome.data : outcome.data[s] = <<>>

\* the labels of the assets, and the present value of the i-th
Labels(assets) == {assets[i].name : i \in DOMAIN assets}
PresentValue(assets, i) ==
    IF "value" \in DOMAIN assets[i].info THEN assets[i].info["value"] ELSE Zero

\* generate_forecast(assets, h) returned h + 1 rows, the i-th (from 0) of
\* year i, each with one entry per label and 'total'
ForecastShape(assets, h, rows) ==
    /\ Len(rows) = h + 1
    /\ \A i \in 0..h :
          /\ rows[i + 1]["year"] = IntVal(i)
          /\ DOMAIN rows[i + 1] = Labels(assets) \cup {"year", "total"}
          /\ Cardinality(DOMAIN rows[i + 1]) = Len(assets) + 2

(* C27 as stated: for every assets mapping and every horizon h >= 0,       *)
(* generate_forecast returns exactly h + 1 rows in ascending year order,   *)
(* the i-th row (from 0) has year = i and one entry per asset label plus   *)
(* 'total', and row 0 holds each asset's present value.                    *)
C27_ForecastRows ==
    outcome.op = "generate_forecast" =>
        /\ ForecastShape(outcome.data.assets, outcome.data.years, outcome.result.v)
        /\ \A i \in DOMAIN outcome.data.assets :
              outcome.result.v[1][outcome.data.assets[i].name]
                  = PresentValue(outcome.data.assets, i)

(* C27 amended: for every assets mapping whose labels are other than       *)
(* 'year' and 'total' and every horizon h >= 0, generate_forecast returns  *)
(* exactly h + 1 rows in ascending year order, the i-th row (from 0) has   *)
(* year = i and one entry per asset label plus 'total', and row 0 holds    *)
(* each asset's present value rounded to two decimals.                     *)
C27_ForecastRowsRounded ==
    (/\ outcome.op = "generate_forecast"
     /\ Labels(outcome.data.assets) \cap {"year", "total"} = {})
        => /\ ForecastShape(outcome.data.assets, outcome.data.years,
                            outcome.result.v)
           /\ \A i \in DOMAIN outcome.data.assets :
                 outcome.result.v[1][outcome.data.assets[i].name]
                     = round2(PresentValue(outcome.data.assets, i))

\* a forecast over the longest horizon of two assets, one of them with a
\* present value that rounding changes
C27_Witness ==
    /\ outcome.op = "generate_forecast"
    /\ outcome.data.years = MaxYears
    /\ Labels(outcome.data.assets) = {"A", "B"}
    /\ \E i \in DOMAIN outcome.data.assets :
          round2(PresentValue(outcome.data.assets, i))
              # PresentValue(outcome.data.assets, i)

\* the forecast assets hold a line for the summary field key
HasLine(assets, key) ==
    \E i \in DOMAIN ForecastLines, j \in DOMAIN assets :
        /\ ForecastLines[i].key = key
        /\ assets[j].name = ForecastLines[i].label

\* C35: every asset category that contributes a positive amount to
\* total_assets appears as a line of the forecast assets built from the
\* summary, and when no category total is negative the total of the year-0
\* row of the forecast equals the summary's total_assets.
C35_ForecastCoversTotalAssets ==
    AnsweredOk("api_calculate_forecast") =>
        /\ \A i \in DOMAIN AssetKeys :
              FPositive(outcome.result.v.summary[AssetKeys[i]])
                  => HasLine(outcome.result.v.assets, AssetKeys[i])
        /\ (\A i \in DOMAIN AssetKeys : ~outcome.result.v.summary[AssetKeys[i]].neg)
              => outcome.result.v.projections[1]["total"]
                     = outcome.result.v.summary["total_assets"]

\* the explicit rates of the records: the numbers and numeric strings the
\* field holds, zero among them
RECURSIVE ExplicitRates(_, _)
ExplicitRates(items, field) ==
    IF items = <<>> THEN <<>>
    ELSE (IF /\ field \in DOMAIN Head(items)
             /\ Head(items)[field].t \in {"number", "string"}
             /\ Head(items)[field] # Str("")
             /\ float(Head(items)[field]).ok
          THEN <<float(Head(items)[field]).v>> ELSE <<>>)
           \o ExplicitRates(Tail(items), field)

RECURSIVE SumOf(_)
SumOf(seq) == IF seq = <<>> THEN Zero ELSE FAdd(Head(seq), SumOf(Tail(seq)))

Mean(seq) == FDivInt(SumOf(seq), Len(seq))

\* the line of build_forecast_assets with the label
LineOf(label) ==
    ForecastLines[CHOOSE i \in DOMAIN ForecastLines : ForecastLines[i].label = label]

(* C28: the expected return of an asset type's forecast line is the mean   *)
(* of the explicit rates of the records of the type, a rate of 0 counting  *)
(* in the mean, and it is the default of the category only when no record  *)
(* of the type carries an explicit rate.                                   *)
C28_MeanOfExplicitRates ==
    AnsweredOk("api_calculate_forecast") =>
        \A i \in DOMAIN outcome.result.v.assets :
            \E line \in {LineOf(outcome.result.v.assets[i].name)} :
                line.rate # "none" =>
                    \E rates \in {ExplicitRates(
                                      items_of(outcome.data.data, line.sheet),
                                      line.rate)} :
                        outcome.result.v.assets[i].info["expected_return"]
                            = IF rates = <<>>
                              THEN Dec(DEFAULT_RETURNS[line.default][1],
                                       DEFAULT_RETURNS[line.default][2])
                              ELSE Mean(rates)

(* C37: the forecast always produces an answer: for every data mapping    *)
(* the summary accepts, records whose expected_return or appreciation_rate *)
(* is a non-numeric string included, build_forecast_assets followed by     *)
(* generate_forecast returns the projections of the years asked for        *)
(* without raising, the malformed rate being skipped.                      *)
C37_ForecastAlwaysAnswers ==
    (/\ outcome.op = "api_calculate_forecast"
     /\ calculate_portfolio_summary_from_data(outcome.data.data).ok)
        => /\ outcome.result.ok
           /\ Len(outcome.result.v.projections) = outcome.data.years + 1

\* 1 + r/100 in floats
Growth(r) == FAdd(FromInt(1), FDivInt(r, 100))

\* the value after one more year, by the closed form and by one step from
\* the value returned
NextYear(call) ==
    calculate_future_value(call.present_value, call.annual_return, call.years + 1)
OneStep(call, value) == FMul(value, Growth(call.annual_return))

\* calculate_future_value(1000, 10, 1)
Example(call) ==
    /\ call.present_value = FromInt(1000)
    /\ call.annual_return = FromInt(10)
    /\ call.years = 1

\* the value of the call at 0 years, at rate 0, and in the example
FixedCases(call, value) ==
    /\ call.years = 0 => value = call.present_value
    /\ call.annual_return = Zero => value = call.present_value
    /\ Example(call) => value = FromInt(1100)

\* |a|, and a * 2^k
Abs(a) == [a EXCEPT !.neg = FALSE]
Scaled(a, k) == IF a = Zero THEN a ELSE [a EXCEPT !.e = @ + k]

\* a and b differ by at most 2^-50 of |a|
Close(a, b) == ~FPositive(FSub(Abs(FSub(a, b)), Scaled(Abs(a), -50)))

(* C29 as stated: calculate_future_value(pv, r, 0) = pv for every rate r,  *)
(* calculate_future_value(pv, 0, n) = pv for every n >= 0, and             *)
(* calculate_future_value(pv, r, n+1) = calculate_future_value(pv, r, n)   *)
(* * (1 + r/100), so that calculate_future_value(1000, 10, 1) is exactly   *)
(* 1100.                                                                   *)
C29_FutureValueRecurrence ==
    outcome.op = "calculate_future_value" =>
        /\ FixedCases(outcome.data, outcome.result.v)
        /\ NextYear(outcome.data) = OneStep(outcome.data, outcome.result.v)

(* C29 amended: calculate_future_value(pv, r, 0) = pv for every rate r,    *)
(* calculate_future_value(pv, 0, n) = pv for every n >= 0,                 *)
(* calculate_future_value(1000, 10, 1) is exactly 1100, and                *)
(* calculate_future_value(pv, r, n+1) equals calculate_future_value(pv, r, *)
(* n) * (1 + r/100) up to floating-point rounding: the two differ by at    *)
(* most 2^-50 of their size.                                               *)
C29_FutureValueRecurrenceRounded ==
    outcome.op = "calculate_future_value" =>
        /\ FixedCases(outcome.data, outcome.result.v)
        /\ Close(NextYear(outcome.data), OneStep(outcome.data, outcome.result.v))

\* the example, where one step from 1100 is not the value of year 2
C29_Witness ==
    /\ outcome.op = "calculate_future_value"
    /\ Example(outcome.data)
    /\ outcome.result.v = FromInt(1100)
    /\ NextYear(outcome.data) # OneStep(outcome.data, outcome.result.v)

----------------------------------------------------------------------------
(* The storage selector: get_config, get_storage, set_storage_mode         *)

\* instances constructed in one run
MaxInst == 3
\* rows a route may add to one collection in one run
MaxItems == 1

\* '' is a missing (falsy) value, "bad" a value credentials.Certificate
\* rejects, "good" one it accepts
Paths == {"", "bad", "good"}
Jsons == {"", "good"}
FbConfigs == [service_account_path : Paths, service_account_json : Jsons]
Modes == {"browser", "firebase", "excel"}
\* the sheet names the routes are called with
RouteNames == {"X", "Net Worth History"}

\* the firebase_config argument of set_storage_mode: None, or a dict
NoArg == [given |-> FALSE, cfg |-> NoFbConfig]
Arg(fc) == [given |-> TRUE, cfg |-> fc]

get_config(c) ==
    IF c.exists
    THEN [storage_mode |-> c.storage_mode, firebase_config |-> c.firebase_config]
    ELSE [storage_mode |-> "browser", firebase_config |-> NoFbConfig]

save_config(d) ==
    [exists |-> TRUE, storage_mode |-> d.storage_mode,
     firebase_config |-> d.firebase_config]

\* config.get('storage_mode', 'browser')
storage_mode_of(d) == IF d.storage_mode = "unset" THEN "browser" ELSE d.storage_mode

\* is_firebase_mode as it would be if the browser mode counted too
is_firebase_mode_or_browser(c) == get_config(c).storage_mode \in {"firebase", "browser"}

is_firebase_mode(c) == get_config(c).storage_mode = "firebase"

\* FirebaseStorage.__init__ / _initialize_firebase: whether the
\* construction succeeds, and whether a firebase app is initialised after it
Firebase_initialize_firebase(fc, app, lib) ==
    IF ~lib THEN [ok |-> FALSE, app |-> app]
    ELSE IF app THEN [ok |-> TRUE, app |-> TRUE]
    ELSE IF fc.service_account_path # ""
         THEN [ok  |-> fc.service_account_path = "good",
               app |-> fc.service_account_path = "good"]
    ELSE IF fc.service_account_json # ""
         THEN [ok  |-> fc.service_account_json = "good",
               app |-> fc.service_account_json = "good"]
    ELSE [ok |-> FALSE, app |-> FALSE]

\* the selector's state, and what a call on it gives
Sel(c, inst, app, nid) == [config |-> c, instance |-> inst, app |-> app, nid |-> nid]
Result(sel, returned, raised, construct) ==
    [sel |-> sel, returned |-> returned, raised |-> raised, construct |-> construct]

\* get_storage as it would be if a failed construction of the remote backend
\* were not caught
storage_get_storage_no_fallback(sel, lib) ==
    IF sel.instance.kind # "None"
    THEN Result(sel, sel.instance, FALSE, "none")
    ELSE LET cfg == get_config(sel.config)
             made(kind, app) == [sel EXCEPT !.instance = [kind |-> kind, id |-> sel.nid],
                                            !.app = app, !.nid = sel.nid + 1]
         IN IF storage_mode_of(cfg) = "firebase"
            THEN LET r == Firebase_initialize_firebase(cfg.firebase_config, sel.app, lib)
                 IN IF r.ok
                    THEN Result(made("Firebase", r.app), made("Firebase", r.app).instance,
                                FALSE, "ok")
                    ELSE Result(sel, NoInstance, TRUE, "failed")
            ELSE Result(made("InMemory", sel.app), made("InMemory", sel.app).instance,
                        FALSE, "none")

storage_get_storage(sel, lib) ==
    IF sel.instance.kind # "None"
    THEN Result(sel, sel.instance, FALSE, "none")
    ELSE LET cfg == get_config(sel.config)
             made(kind, app) == [sel EXCEPT !.instance = [kind |-> kind, id |-> sel.nid],
                                            !.app = app, !.nid = sel.nid + 1]
         IN IF storage_mode_of(cfg) = "firebase"
            THEN LET r == Firebase_initialize_firebase(cfg.firebase_config, sel.app, lib)
                 IN IF r.ok
                    THEN Result(made("Firebase", r.app), made("Firebase", r.app).instance,
                                FALSE, "ok")
                    ELSE Result(made("InMemory", r.app), made("InMemory", r.app).instance,
                                FALSE, "failed")
            ELSE Result(made("InMemory", sel.app), made("InMemory", sel.app).instance,
                        FALSE, "none")

\* set_storage_mode as it would be if the cached instance were not discarded
storage_set_storage_mode_keep_instance(sel, lib, mode, firebase_config) ==
    LET cfg == get_config(sel.config)
        new == [storage_mode |-> mode,
                firebase_config |-> IF firebase_config.given THEN firebase_config.cfg
                                    ELSE cfg.firebase_config]
    IN storage_get_storage([sel EXCEPT !.config = save_config(new)], lib)

storage_set_storage_mode(sel, lib, mode, firebase_config) ==
    LET cfg == get_config(sel.config)
        new == [storage_mode |-> mode,
                firebase_config |-> IF firebase_config.given THEN firebase_config.cfg
                                    ELSE cfg.firebase_config]
    IN storage_get_storage(
           [sel EXCEPT !.config = save_config(new), !.instance = NoInstance], lib)

\* what a selector call or a route reported
Reported(op, mode, construct, raised, flash, returned) ==
    [op |-> op, mode |-> mode, construct |-> construct, raised |-> raised,
     flash |-> flash, returned |-> returned]

SelNow == Sel(config, storage_instance, fbApp, nextId)

\* the selector's variables become those of sel
SelBecomes(sel) ==
    /\ config' = sel.config
    /\ storage_instance' = sel.instance
    /\ fbApp' = sel.app
    /\ nextId' = sel.nid

\* InMemoryStorage.__init__ as it would be if each instance started with
\* stores of its own
InMemoryStorage_init_own_stores(abd) == [s \in Scopes |-> NoStore]

\* InMemoryStorage.__init__: pass; the stores are class attributes, which a
\* new instance finds as they are
InMemoryStorage_init(abd) == abd

\* the stores after a selector call that went from the state before to sel
Constructed(before, sel, abd) ==
    IF sel.instance # before.instance /\ sel.instance.kind = "InMemory"
    THEN InMemoryStorage_init(abd)
    ELSE abd

\* get_data(sheet_name): get_storage().get_data(sheet_name)
storage_get_data(kind, abd, cur, fs, sheet_name) ==
    IF kind = "Firebase"
    THEN Firebase_get_data(fs, sheet_name)
    ELSE InMemory_get_data(abd, cur, sheet_name)

\* get_sheet_names(): get_storage().get_collection_names()
storage_get_sheet_names(kind, abd, cur, fs) ==
    IF kind = "Firebase"
    THEN Firebase_get_collection_names(fs)
    ELSE InMemory_get_collection_names(abd, cur)

\* the stores after a handler that only read from the backend of that kind
OnlyRead(kind, abd) ==
    /\ all_browser_data' = IF kind = "InMemory"
                           THEN InMemory_get_data_store(abd, current_browser_id)
                           ELSE abd
    /\ UNCHANGED <<xlFile, current_browser_id, fsdocs>>

\* the stores after save_data(sheet_name, df) on the backend of that kind
Saved(kind, abd, sheet_name, df) ==
    /\ all_browser_data' = IF kind = "InMemory"
                           THEN InMemory_save_data(abd, current_browser_id, sheet_name, df)
                           ELSE abd
    /\ fsdocs' = IF kind = "Firebase"
                 THEN Firebase_save_data(fsdocs, sheet_name, df)
                 ELSE fsdocs
    /\ UNCHANGED <<xlFile, current_browser_id>>

\* what a call that returns data reported
Returned(op, construct, returned, name, rows) ==
    [op |-> op, mode |-> "none", construct |-> construct, raised |-> FALSE,
     flash |-> "none", returned |-> returned, name |-> name, rows |-> rows]

----------------------------------------------------------------------------
(* Spec: the selector and the routes that use it                           *)

InitConfigs ==
    {NoConfig} \cup
    {[exists |-> TRUE, storage_mode |-> m, firebase_config |-> fc] :
        m \in {"browser", "firebase", "unset"}, fc \in FbConfigs}

Init ==
    /\ obj = "selector"
    /\ xlFile = NoFile
    /\ all_browser_data = [s \in Scopes |-> NoStore]
    /\ current_browser_id = "None"
    /\ fsdocs = [n \in Names |-> NoDocs]
    /\ config \in InitConfigs
    /\ storage_instance = NoInstance
    /\ fbApp = FALSE
    /\ libInstalled \in BOOLEAN
    /\ nextId = 1
    /\ outcome = Reported("none", "none", "none", FALSE, "none", NoInstance)
    /\ pc = [r \in Requests |-> "idle"]
    /\ loc = [r \in Requests |-> NoLocal]

get_storage ==
    /\ storage_instance.kind # "None" \/ nextId <= MaxInst
    /\ LET r == storage_get_storage(SelNow, libInstalled)
       IN /\ SelBecomes(r.sel)
          /\ outcome' = Reported("get_storage", storage_mode_of(get_config(config)),
                                 r.construct, r.raised, "none", r.returned)
          /\ all_browser_data' = Constructed(SelNow, r.sel, all_browser_data)
    /\ UNCHANGED <<obj, xlFile, current_browser_id, fsdocs, libInstalled, concVars>>

set_storage_mode(mode, firebase_config) ==
    /\ nextId <= MaxInst
    /\ LET r == storage_set_storage_mode(SelNow, libInstalled, mode, firebase_config)
       IN /\ SelBecomes(r.sel)
          /\ outcome' = Reported("set_storage_mode", mode, r.construct, r.raised,
                                 "none", r.returned)
          /\ all_browser_data' = Constructed(SelNow, r.sel, all_browser_data)
    /\ UNCHANGED <<obj, xlFile, current_browser_id, fsdocs, libInstalled, concVars>>

reset_storage ==
    /\ storage_instance' = NoInstance
    /\ outcome' = Reported("reset_storage", "none", "none", FALSE, "none", NoInstance)
    /\ UNCHANGED <<obj, storeVars, config, fbApp, libInstalled, nextId, concVars>>

\* POST /settings/storage
update_storage_settings(storage_mode, firebase_config) ==
    /\ nextId < MaxInst
    /\ IF storage_mode = "firebase"
       THEN LET r == storage_set_storage_mode(SelNow, libInstalled, "firebase",
                                              Arg(firebase_config))
                e == storage_set_storage_mode(r.sel, libInstalled, "browser", NoArg)
            IN IF ~r.raised
               THEN /\ SelBecomes(r.sel)
                    /\ all_browser_data' = Constructed(SelNow, r.sel, all_browser_data)
                    /\ outcome' = Reported("update_storage_settings", "firebase",
                                           r.construct, FALSE,
                                           "Storage mode switched to Firebase Firestore!",
                                           r.returned)
               ELSE /\ SelBecomes(e.sel)
                    /\ all_browser_data' = Constructed(SelNow, e.sel, all_browser_data)
                    /\ outcome' = Reported("update_storage_settings", "firebase",
                                           r.construct, e.raised,
                                           "Failed to connect to Firebase", e.returned)
       ELSE LET r == storage_set_storage_mode(SelNow, libInstalled, "browser", NoArg)
            IN /\ SelBecomes(r.sel)
               /\ all_browser_data' = Constructed(SelNow, r.sel, all_browser_data)
               /\ outcome' = Reported("update_storage_settings", "browser",
                                      r.construct, r.raised,
                                      "Storage mode switched to Browser (localStorage)!",
                                      r.returned)
    /\ UNCHANGED <<obj, xlFile, current_browser_id, fsdocs, libInstalled, concVars>>

\* get_data(sheet_name) of storage.py, called in any mode
get_data(sheet_name) ==
    /\ storage_instance.kind # "None" \/ nextId <= MaxInst
    /\ LET r == storage_get_storage(SelNow, libInstalled)
           abd == Constructed(SelNow, r.sel, all_browser_data)
       IN /\ SelBecomes(r.sel)
          /\ OnlyRead(r.returned.kind, abd)
          /\ outcome' = Returned("get_data", r.construct, r.returned, sheet_name,
                                 storage_get_data(r.returned.kind, abd, current_browser_id,
                                                  fsdocs, sheet_name))
    /\ UNCHANGED <<obj, libInstalled, concVars>>

\* save_data(sheet_name, df) of storage.py, called in any mode
save_data(sheet_name, df) ==
    /\ storage_instance.kind # "None" \/ nextId <= MaxInst
    /\ LET r == storage_get_storage(SelNow, libInstalled)
           abd == Constructed(SelNow, r.sel, all_browser_data)
       IN /\ SelBecomes(r.sel)
          /\ Saved(r.returned.kind, abd, sheet_name, df)
          /\ outcome' = Returned("save_data", r.construct, r.returned, sheet_name, df)
    /\ UNCHANGED <<obj, libInstalled, concVars>>

\* POST /api/firebase/add-item
api_firebase_add_item(sheet_name, item) ==
    /\ storage_instance.kind # "None" \/ nextId <= MaxInst
    /\ IF ~is_firebase_mode(config)
       THEN /\ outcome' = Reported("api_firebase_add_item", "none", "none", FALSE,
                                   "Not in Firebase mode", NoInstance)
            /\ UNCHANGED <<storeVars, selVars>>
       ELSE LET r == storage_get_storage(SelNow, libInstalled)
                abd == Constructed(SelNow, r.sel, all_browser_data)
                df == storage_get_data(r.returned.kind, abd, current_browser_id,
                                       fsdocs, sheet_name)
            IN /\ Len(df) < MaxItems
               /\ SelBecomes(r.sel)
               /\ UNCHANGED libInstalled
               /\ Saved(r.returned.kind, abd, sheet_name, concat(df, item))
               /\ outcome' = Reported("api_firebase_add_item", "firebase", r.construct,
                                      FALSE, "Item added successfully", r.returned)
    /\ UNCHANGED <<obj, concVars>>

Next ==
    \/ get_storage
    \/ \E m \in Modes, fc \in {NoArg} \cup {Arg(c) : c \in FbConfigs} :
            set_storage_mode(m, fc)
    \/ reset_storage
    \/ \E m \in {"browser", "firebase"}, fc \in FbConfigs :
            update_storage_settings(m, fc)
    \/ \E item \in {Rec("a")} : api_firebase_add_item("X", item)

Spec == Init /\ [][Next]_vars

----------------------------------------------------------------------------
(* Claims about the selector (Spec)                                        *)

\* a switch to the remote backend whose construction failed has just ended
FailedSwitch ==
    /\ outcome.op \in {"set_storage_mode", "update_storage_settings"}
    /\ outcome.mode = "firebase"
    /\ outcome.construct = "failed"

\* C5: after the storage mode is switched to the remote backend with a
\* configuration for which the construction of the remote backend fails, the
\* persisted storage_mode is 'browser', not 'firebase'.
C5_FailedSwitchRevertsMode ==
    FailedSwitch => get_config(config).storage_mode = "browser"

\* C6: when update_storage_settings switches to the remote backend and the
\* construction of the remote backend fails, it takes its error branch and
\* never reports that the mode was switched to Firebase.
C6_FailedSwitchReportsFailure ==
    (FailedSwitch /\ outcome.op = "update_storage_settings")
        => outcome.flash = "Failed to connect to Firebase"

\* C7: in every state in which the backend singleton exists, the persisted
\* storage_mode is 'firebase' if and only if the singleton is the remote
\* backend.
C7_NeverHalfConfigured ==
    storage_instance.kind # "None"
        => (is_firebase_mode(config) <=> storage_instance.kind = "Firebase")

\* C8: get_storage() raises nothing; when the configured mode is the remote
\* backend and its construction fails it returns a transient in-memory
\* backend; and while a singleton exists every get_storage() call returns
\* it, only a mode switch or a reset replacing it.
C8_FailOpen ==
    [][/\ get_storage =>
            /\ ~outcome'.raised
            /\ outcome'.returned = storage_instance'
            /\ outcome'.construct = "failed" => outcome'.returned.kind = "InMemory"
            /\ storage_instance.kind # "None" => outcome'.returned = storage_instance
       /\ (storage_instance.kind # "None" /\ storage_instance' # storage_instance)
            => outcome'.op \in {"set_storage_mode", "reset_storage",
                                "update_storage_settings"}]_vars

\* get_storage() has fallen back to the transient backend in firebase mode
C8_Witness ==
    /\ outcome.op = "get_storage"
    /\ outcome.construct = "failed"
    /\ is_firebase_mode(config)
    /\ storage_instance.kind = "InMemory"
    /\ outcome.returned = storage_instance

\* the backend variant a storage mode names
VariantOf(mode) ==
    CASE mode = "firebase" -> "Firebase"
      [] mode = "excel" -> "Excel"
      [] OTHER -> "InMemory"

\* C12: for each of the three storage modes, when that mode is the persisted
\* storage_mode and the construction of its backend succeeds, get_storage()
\* returns a backend of that variant; when no mode is persisted it returns
\* the transient in-memory backend.
C12_ModeSelectsVariant ==
    [][(get_storage /\ storage_instance.kind = "None"
            /\ outcome'.construct # "failed")
        => outcome'.returned.kind = VariantOf(storage_mode_of(get_config(config)))]_vars

\* C13: after set_storage_mode(m, cfg) returns, the persisted storage_mode is
\* m and the cached instance is one constructed by the call, never the one
\* cached before it (also when m is the previous mode); an instance once
\* replaced is never returned again; and while an instance is cached every
\* get_storage() call returns it.
C13_SwitchRebuildsInstance ==
    [][/\ \A m \in Modes, fc \in {NoArg} \cup {Arg(c) : c \in FbConfigs} :
            set_storage_mode(m, fc) =>
                /\ get_config(config').storage_mode = m
                /\ storage_instance'.kind # "None"
                /\ storage_instance'.id >= nextId
                /\ outcome'.returned = storage_instance'
       /\ storage_instance'.kind # "None" =>
            /\ storage_instance' = storage_instance \/ storage_instance'.id >= nextId
            /\ storage_instance'.id < nextId'
       /\ nextId' >= nextId
       /\ (get_storage /\ storage_instance.kind # "None") =>
            /\ outcome'.returned = storage_instance
            /\ storage_instance' = storage_instance]_vars

\* set_storage_mode has replaced an earlier instance, and its mode is persisted
C13_Witness ==
    /\ outcome.op = "set_storage_mode"
    /\ storage_instance.id >= 2
    /\ outcome.returned = storage_instance
    /\ get_config(config).storage_mode = outcome.mode

\* df.index[row_index] of a frame of n rows, as the position of the row
\* counted from 1; a negative index counts from the end, and 0 stands for
\* the IndexError of an index that is out of bounds
index_at(n, row_index) ==
    IF 0 <= row_index /\ row_index < n THEN row_index + 1
    ELSE IF row_index < 0 /\ -row_index <= n THEN n + row_index + 1
    ELSE 0

\* df.drop(df.index[row_index]).reset_index(drop=True)
drop_row(df, row_index) ==
    LET p == index_at(Len(df), row_index)
    IN [i \in 1..(Len(df) - 1) |-> IF i < p THEN df[i] ELSE df[i + 1]]

\* for key, value in item.items(): df.at[row_index, key] = value, on a frame
\* whose labels are 0..len-1: the row labelled row_index gets the values of
\* item, and a label the frame lacks adds a row, NaN outside the keys of item
set_at(df, row_index, item) ==
    IF 0 <= row_index /\ row_index < Len(df)
    THEN [df EXCEPT ![row_index + 1] =
            [k \in DOMAIN df[row_index + 1] \cup DOMAIN item |->
                IF k \in DOMAIN item THEN item[k] ELSE df[row_index + 1][k]]]
    ELSE concat(df, item)

\* what get_data(sheet_name) returns to a handler called in the current state
RouteData(sheet_name) ==
    LET r == storage_get_storage(SelNow, libInstalled)
    IN storage_get_data(r.returned.kind, Constructed(SelNow, r.sel, all_browser_data),
                        current_browser_id, fsdocs, sheet_name)

\* the handlers below start with "if not is_firebase_mode()"
NotFirebase(op, flash) ==
    /\ ~is_firebase_mode(config)
    /\ outcome' = Reported(op, "none", "none", FALSE, flash, NoInstance)
    /\ UNCHANGED <<storeVars, selVars>>

\* a handler in its Firebase branch: get_data(sheet_name) gave df; it writes
\* new_df when write holds, and reports flash
InFirebase(op, sheet_name, write, new_df, flash) ==
    /\ is_firebase_mode(config)
    /\ LET r == storage_get_storage(SelNow, libInstalled)
           abd == Constructed(SelNow, r.sel, all_browser_data)
       IN /\ SelBecomes(r.sel)
          /\ UNCHANGED libInstalled
          /\ IF write
             THEN Saved(r.returned.kind, abd, sheet_name, new_df)
             ELSE OnlyRead(r.returned.kind, abd)
          /\ outcome' = Reported(op, "firebase", r.construct, FALSE, flash, r.returned)

\* POST /api/firebase/update-item.  A negative row_index passes the check
\* and adds a row under that label; the transient backend keeps the label,
\* which the rows here do not carry, so that case is followed on the remote
\* backend only.
api_firebase_update_item(sheet_name, row_index, item) ==
    /\ storage_instance.kind # "None" \/ nextId <= MaxInst
    /\ \/ NotFirebase("api_firebase_update_item", "Not in Firebase mode")
       \/ LET df == RouteData(sheet_name)
          IN IF row_index >= Len(df)
             THEN InFirebase("api_firebase_update_item", sheet_name, FALSE, df,
                             "Item not found")
             ELSE /\ row_index >= 0
                        \/ /\ storage_get_storage(SelNow, libInstalled).returned.kind
                                    = "Firebase"
                           /\ Len(df) < MaxItems
                  /\ InFirebase("api_firebase_update_item", sheet_name, TRUE,
                                set_at(df, row_index, item), "Item updated successfully")
    /\ UNCHANGED <<obj, concVars>>

\* POST /api/firebase/delete-item
api_firebase_delete_item(sheet_name, row_index) ==
    /\ storage_instance.kind # "None" \/ nextId <= MaxInst
    /\ \/ NotFirebase("api_firebase_delete_item", "Not in Firebase mode")
       \/ LET df == RouteData(sheet_name)
          IN IF row_index >= Len(df)
             THEN InFirebase("api_firebase_delete_item", sheet_name, FALSE, df,
                             "Item not found")
             ELSE IF index_at(Len(df), row_index) = 0
             THEN InFirebase("api_firebase_delete_item", sheet_name, FALSE, df,
                             "index out of bounds")
             ELSE InFirebase("api_firebase_delete_item", sheet_name, TRUE,
                             drop_row(df, row_index), "Item deleted successfully")
    /\ UNCHANGED <<obj, concVars>>

\* the page handlers do nothing to the store outside Firebase mode
Skipped(op) ==
    /\ ~is_firebase_mode(config)
    /\ outcome' = Reported(op, "none", "none", FALSE, "none", NoInstance)
    /\ UNCHANGED <<storeVars, selVars>>

\* POST /edit/<item_type>/<int:row_index>; the int converter of the URL
\* accepts no negative number
edit_item(sheet_name, row_index, form) ==
    /\ storage_instance.kind # "None" \/ nextId <= MaxInst
    /\ row_index >= 0
    /\ \/ Skipped("edit_item")
       \/ LET df == RouteData(sheet_name)
          IN IF row_index >= Len(df)
             THEN InFirebase("edit_item", sheet_name, FALSE, df, "Item not found!")
             ELSE InFirebase("edit_item", sheet_name, TRUE, set_at(df, row_index, form),
                             "Successfully updated item!")
    /\ UNCHANGED <<obj, concVars>>

\* GET /delete/<item_type>/<int:row_index>
delete_item(sheet_name, row_index) ==
    /\ storage_instance.kind # "None" \/ nextId <= MaxInst
    /\ row_index >= 0
    /\ \/ Skipped("delete_item")
       \/ LET df == RouteData(sheet_name)
          IN IF row_index < Len(df)
             THEN InFirebase("delete_item", sheet_name, TRUE, drop_row(df, row_index),
                             "Successfully deleted item!")
             ELSE InFirebase("delete_item", sheet_name, FALSE, df, "Item not found!")
    /\ UNCHANGED <<obj, concVars>>

NetWorthHistory == "Net Worth History"

\* the snapshot row: its record_date; the summary fields computed from the
\* other collections are left out
snapshot(record_date) == [record_date |-> record_date]

\* POST /networth/snapshot
save_networth_snapshot(record_date) ==
    /\ storage_instance.kind # "None" \/ nextId <= MaxInst
    /\ \/ Skipped("save_networth_snapshot")
       \/ LET df == RouteData(NetWorthHistory)
          IN /\ Len(df) < MaxItems
             /\ InFirebase("save_networth_snapshot", NetWorthHistory, TRUE,
                           concat(df, snapshot(record_date)),
                           "Net worth snapshot saved successfully!")
    /\ UNCHANGED <<obj, concVars>>

\* GET /networth/delete/<int:row_index>
delete_networth_record(row_index) ==
    /\ storage_instance.kind # "None" \/ nextId <= MaxInst
    /\ row_index >= 0
    /\ \/ Skipped("delete_networth_record")
       \/ LET df == RouteData(NetWorthHistory)
          IN IF row_index < Len(df)
             THEN InFirebase("delete_networth_record", NetWorthHistory, TRUE,
                             drop_row(df, row_index), "Record deleted successfully!")
             ELSE InFirebase("delete_networth_record", NetWorthHistory, FALSE, df,
                             "Record not found!")
    /\ UNCHANGED <<obj, concVars>>

\* POST /networth/purge
purge_networth_history ==
    /\ storage_instance.kind # "None" \/ nextId <= MaxInst
    /\ \/ Skipped("purge_networth_history")
       \/ /\ is_firebase_mode(config)
          /\ LET r == storage_get_storage(SelNow, libInstalled)
                 abd == Constructed(SelNow, r.sel, all_browser_data)
             IN /\ SelBecomes(r.sel)
                /\ UNCHANGED libInstalled
                /\ Saved(r.returned.kind, abd, NetWorthHistory, <<>>)
                /\ outcome' = Reported("purge_networth_history", "firebase", r.construct,
                                       FALSE, "All history records purged successfully!",
                                       r.returned)
    /\ UNCHANGED <<obj, concVars>>

\* the uploaded workbooks: one sheet, empty or with one row
Workbooks ==
    {Excel_write([n \in Names |-> IF n = m THEN Present(df) ELSE Absent]) :
        m \in RouteNames, df \in {<<>>, <<Rec("a")>>}}

\* POST /api/import-excel: every sheet of the workbook is read, and in
\* Firebase mode saved under its name
api_import_excel(wb) ==
    /\ storage_instance.kind # "None" \/ nextId <= MaxInst
    /\ IF ~is_firebase_mode(config)
       THEN /\ outcome' = Reported("api_import_excel", "none", "none", FALSE,
                                   "Data imported successfully", NoInstance)
            /\ UNCHANGED <<storeVars, selVars>>
       ELSE LET r == storage_get_storage(SelNow, libInstalled)
                abd == Constructed(SelNow, r.sel, all_browser_data)
                sheets == Excel_get_collection_names(wb)
                df(n) == read_excel(wb.sheets[n].rows)
            IN /\ SelBecomes(r.sel)
               /\ UNCHANGED <<libInstalled, xlFile, current_browser_id>>
               /\ fsdocs' = IF r.returned.kind = "Firebase"
                            THEN [n \in Names |->
                                    IF n \in sheets
                                    THEN Firebase_save_data(fsdocs, n, df(n))[n]
                                    ELSE fsdocs[n]]
                            ELSE fsdocs
               /\ all_browser_data' =
                    IF r.returned.kind = "InMemory"
                    THEN [InMemory_get_data_store(abd, current_browser_id)
                            EXCEPT ![Mem_bid(current_browser_id)].colls =
                                [n \in Names |->
                                    IF n \in sheets THEN Present(df(n)) ELSE @[n]]]
                    ELSE abd
               /\ outcome' = Reported("api_import_excel", "firebase", r.construct, FALSE,
                                      "Data imported successfully", r.returned)
    /\ UNCHANGED <<obj, concVars>>

\* a handler answered without a look at the store
Answer(op, flash) ==
    /\ outcome' = Reported(op, "none", "none", FALSE, flash, NoInstance)
    /\ UNCHANGED <<storeVars, selVars>>

\* POST or GET /add: in Firebase mode a POST whose form carries the first
\* field appends the item; every other request renders the form
add_item(sheet_name, item, post) ==
    /\ storage_instance.kind # "None" \/ nextId <= MaxInst
    /\ IF is_firebase_mode(config) /\ post
       THEN LET df == RouteData(sheet_name)
            IN /\ Len(df) < MaxItems
               /\ InFirebase("add_item", sheet_name, TRUE, concat(df, item),
                             "Successfully added new item!")
       ELSE Answer("add_item", "none")
    /\ UNCHANGED <<obj, concVars>>

\* the collection that takes the place of 'Mutual Funds'; its rows carry no
\* scheme_code, so that no NAV is fetched for them
MutualFunds == "X"

\* POST /api/update-mf-nav: in Firebase mode the funds are read and saved
\* back; outside it the funds of the payload are answered
api_update_mf_nav ==
    /\ storage_instance.kind # "None" \/ nextId <= MaxInst
    /\ IF ~is_firebase_mode(config)
       THEN Answer("api_update_mf_nav", "Updated 0 mutual fund NAVs")
       ELSE LET df == RouteData(MutualFunds)
            IN IF df_empty(df)
               THEN InFirebase("api_update_mf_nav", MutualFunds, FALSE, df,
                               "No mutual funds found")
               ELSE InFirebase("api_update_mf_nav", MutualFunds, TRUE, df,
                               "Updated 0 mutual fund NAVs")
    /\ UNCHANGED <<obj, concVars>>

\* POST /api/update-metal-prices: fetched tells whether the live rates came.
\* 'Gold' and 'Silver' are not among the collections followed here: both
\* read as empty, and nothing is saved back.
api_update_metal_prices(fetched) ==
    /\ storage_instance.kind # "None" \/ nextId <= MaxInst
    /\ IF ~fetched
       THEN Answer("api_update_metal_prices", "Unable to fetch metal prices")
       ELSE IF ~is_firebase_mode(config)
       THEN Answer("api_update_metal_prices", "Updated 0 gold and 0 silver items")
       ELSE InFirebase("api_update_metal_prices", "X", FALSE, <<>>,
                       "Updated 0 gold and 0 silver items")
    /\ UNCHANGED <<obj, concVars>>

\* GET /api/firebase/get-data: get_all_firebase_data() reads every sheet
api_firebase_get_data ==
    /\ storage_instance.kind # "None" \/ nextId <= MaxInst
    /\ IF ~is_firebase_mode(config)
       THEN Answer("api_firebase_get_data", "Not in Firebase mode")
       ELSE InFirebase("api_firebase_get_data", "X", FALSE, <<>>, "success")
    /\ UNCHANGED <<obj, concVars>>

----------------------------------------------------------------------------
(* SpecRoutes: the handlers that read and write collections through the    *)
(* selector, with the mode switched between 'browser' and 'firebase' and   *)
(* the remote configuration one that works or one that fails.              *)

\* the row_index values of the requests
RowIndexes == -1..MaxItems

RouteConfigs ==
    {[exists |-> TRUE, storage_mode |-> m,
      firebase_config |-> [service_account_path |-> p, service_account_json |-> ""]] :
        m \in {"browser", "firebase"}, p \in {"bad", "good"}}

InitRoutes ==
    /\ obj = "selector"
    /\ xlFile = NoFile
    /\ all_browser_data = [s \in Scopes |-> NoStore]
    /\ current_browser_id = "None"
    /\ fsdocs = [n \in Names |-> NoDocs]
    /\ config \in RouteConfigs
    /\ storage_instance = NoInstance
    /\ fbApp = FALSE
    /\ libInstalled = TRUE
    /\ nextId = 1
    /\ outcome = Reported("none", "none", "none", FALSE, "none", NoInstance)
    /\ pc = [r \in Requests |-> "idle"]
    /\ loc = [r \in Requests |-> NoLocal]

NextRoutes ==
    \/ \E m \in {"browser", "firebase"} : set_storage_mode(m, NoArg)
    \/ reset_storage
    \/ \E n \in RouteNames : get_data(n)
    \/ \E n \in RouteNames, df \in {<<>>, <<Rec("a")>>} : save_data(n, df)
    \/ \E n \in RouteNames, item \in {Rec("a")} : api_firebase_add_item(n, item)
    \/ \E n \in RouteNames, i \in RowIndexes :
            api_firebase_update_item(n, i, Rec("b"))
    \/ \E n \in RouteNames, i \in RowIndexes : api_firebase_delete_item(n, i)
    \/ \E i \in RowIndexes : edit_item("X", i, Rec("b"))
    \/ \E i \in RowIndexes : delete_item("X", i)
    \/ save_networth_snapshot("d1")
    \/ \E i \in RowIndexes : delete_networth_record(i)
    \/ purge_networth_history
    \/ \E wb \in Workbooks : api_import_excel(wb)
    \/ \E post \in BOOLEAN : add_item("X", Rec("a"), post)
    \/ api_update_mf_nav
    \/ \E fetched \in BOOLEAN : api_update_metal_prices(fetched)
    \/ api_firebase_get_data

SpecRoutes == InitRoutes /\ [][NextRoutes]_vars

----------------------------------------------------------------------------
(* Claims about the handlers (SpecRoutes)                                  *)

\* C14: set_storage_mode and reset_storage change no collection of any
\* backend, and a read in the transient mode returns the rows the transient
\* store of the current scope held before the call, whichever instances were
\* constructed or discarded since they were written.
C14_SwitchKeepsData ==
    [][/\ ((\E m \in {"browser", "firebase"} : set_storage_mode(m, NoArg))
                \/ reset_storage)
            => /\ all_browser_data' = all_browser_data
               /\ fsdocs' = fsdocs
               /\ xlFile' = xlFile
       /\ \A n \in RouteNames :
            (get_data(n) /\ outcome'.returned.kind = "InMemory")
                => outcome'.rows = ReadScope(all_browser_data,
                                             Mem_bid(current_browser_id), n)]_vars

\* rows are read from the transient store by the third instance, after the
\* mode was switched to the remote backend and back
C14_Witness ==
    /\ outcome.op = "get_data"
    /\ outcome.returned.kind = "InMemory"
    /\ outcome.returned.id >= 3
    /\ fbApp
    /\ ~is_firebase_mode(config)
    /\ outcome.rows # <<>>

\* C19: an update-item or delete-item operation (JSON API and page routes)
\* given a row_index that identifies no existing row, any integer outside
\* 0..len-1, the negative ones included, reports 'Item not found' and leaves
\* the collections unchanged.
C19_ValidatedBeforeWrite ==
    [][\A n \in RouteNames, i \in RowIndexes :
          (/\ is_firebase_mode(config)
           /\ i < 0 \/ i >= Len(RouteData(n))
           /\ \/ api_firebase_update_item(n, i, Rec("b"))
              \/ api_firebase_delete_item(n, i)
              \/ edit_item(n, i, Rec("b"))
              \/ delete_item(n, i))
          => /\ outcome'.flash \in {"Item not found", "Item not found!"}
             /\ fsdocs' = fsdocs
             /\ \A sc \in Scopes, m \in Names :
                    ReadScope(all_browser_data', sc, m) = ReadScope(all_browser_data, sc, m)]_vars

\* the handlers of the routes that write in Firebase mode, and those of
\* /api/firebase/*
WritingHandlers ==
    {"add_item", "edit_item", "delete_item", "save_networth_snapshot",
     "delete_networth_record", "purge_networth_history", "api_update_mf_nav",
     "api_update_metal_prices", "api_import_excel"}
FirebaseHandlers ==
    {"api_firebase_add_item", "api_firebase_update_item", "api_firebase_delete_item",
     "api_firebase_get_data"}

\* the persisted storage_mode is not 'firebase'
NotFirebaseMode == get_config(config).storage_mode # "firebase"

\* C34: while the persisted storage_mode is not 'firebase', no handler of a
\* server route changes a stored collection: the add, edit, delete,
\* snapshot, history-delete, purge, NAV-update, metal-price-update, import
\* and /api/firebase/* handlers leave the workbook, the process memory and
\* the remote documents as they were, and the /api/firebase/* handlers
\* answer 'Not in Firebase mode'.
C34_NoWriteOutsideFirebaseMode ==
    [][(NotFirebaseMode /\ outcome'.op \in WritingHandlers \cup FirebaseHandlers)
          => /\ xlFile' = xlFile
             /\ all_browser_data' = all_browser_data
             /\ fsdocs' = fsdocs
             /\ outcome'.op \in FirebaseHandlers
                    => outcome'.flash = "Not in Firebase mode"]_vars

\* the purge was called outside Firebase mode and the snapshots written in
\* Firebase mode are still there
C34_Witness ==
    /\ NotFirebaseMode
    /\ outcome.op = "purge_networth_history"
    /\ DOMAIN fsdocs[NetWorthHistory] # {}

\* rows a is a prefix of rows b, row for row
IsPrefixOf(a, b) == Len(a) <= Len(b) /\ SubSeq(b, 1, Len(a)) = a

\* C20: no server operation other than the purge removes or changes a row
\* of 'Net Worth History': after every other operation the rows it held
\* before are a prefix of the rows it holds, in the remote documents and in
\* every scope of the process memory; a snapshot adds exactly one row.
C20_HistoryAppendOnly ==
    [][outcome'.op \notin {"purge_networth_history", "save_data"}
          => /\ IsPrefixOf(Firebase_get_data(fsdocs, NetWorthHistory),
                           Firebase_get_data(fsdocs', NetWorthHistory))
             /\ \A sc \in Scopes :
                    IsPrefixOf(ReadScope(all_browser_data, sc, NetWorthHistory),
                               ReadScope(all_browser_data', sc, NetWorthHistory))
             /\ (outcome'.op = "save_networth_snapshot" /\ outcome'.mode = "firebase")
                    => Len(storage_get_data(outcome'.returned.kind, all_browser_data',
                                            current_browser_id', fsdocs', NetWorthHistory))
                         = Len(RouteData(NetWorthHistory)) + 1]_vars

----------------------------------------------------------------------------
(* SpecConc: two requests on one backend object.  A request adds a row     *)
(* (read the collection, append, write it back) or writes a dataset; its   *)
(* steps are the reads and writes of the file, of the process memory and   *)
(* of the remote documents, and the steps of the two requests interleave.  *)

\* rows of the datasets the requests write
MaxWrite == 2

\* the row request r adds, and the rows of the datasets it writes
RowOf(r) == Rec(IF r = 1 THEN "r1" ELSE "r2")
WritesOf(r) == {[i \in 1..k |-> RowOf(r)] : k \in 0..MaxWrite}

\* what the collections hold before the requests start
Bases == {<<>>, <<Rec("a")>>}

InitConc ==
    /\ obj \in Backends
    /\ \E base \in Bases :
        /\ xlFile = IF obj = "ExcelStorage"
                    THEN Excel_save_data(Excel_ensure_file_exists(NoFile), "X", base)
                    ELSE NoFile
        /\ all_browser_data =
                IF obj = "InMemoryStorage"
                THEN InMemory_save_data([s \in Scopes |-> NoStore], "None", "X", base)
                ELSE [s \in Scopes |-> NoStore]
        /\ fsdocs = IF obj = "FirebaseStorage"
                    THEN Firebase_save_data([n \in Names |-> NoDocs], "X", base)
                    ELSE [n \in Names |-> NoDocs]
    /\ current_browser_id = "None"
    /\ config = NoConfig
    /\ storage_instance = NoInstance
    /\ fbApp = (obj = "FirebaseStorage")
    /\ libInstalled = TRUE
    /\ nextId = 1
    /\ outcome = Idle
    /\ pc = [r \in Requests |-> "idle"]
    /\ loc = [r \in Requests |-> NoLocal]

\* a request arrives: add a row to collection n
StartAdd(r, n) ==
    /\ pc[r] = "idle"
    /\ pc' = [pc EXCEPT ![r] = "get_data"]
    /\ loc' = [loc EXCEPT ![r].op = "add", ![r].name = n]
    /\ UNCHANGED <<obj, storeVars, selVars, outcome>>

\* a request arrives: write the dataset df to collection n
StartWrite(r, n, df) ==
    /\ pc[r] = "idle"
    /\ pc' = [pc EXCEPT ![r] = "save_data"]
    /\ loc' = [loc EXCEPT ![r].op = "write", ![r].name = n, ![r].df = df]
    /\ UNCHANGED <<obj, storeVars, selVars, outcome>>

\* df = get_data(sheet_name); df = pd.concat([df, new_df], ignore_index=True)
AddGetData(r) ==
    /\ pc[r] = "get_data"
    /\ pc' = [pc EXCEPT ![r] = "save_data"]
    /\ loc' = [loc EXCEPT ![r].read = ReadNow(loc[r].name),
                          ![r].df = concat(ReadNow(loc[r].name), RowOf(r))]
    /\ all_browser_data' =
            IF obj = "InMemoryStorage"
            THEN InMemory_get_data_store(all_browser_data, current_browser_id)
            ELSE all_browser_data
    /\ UNCHANGED <<obj, xlFile, current_browser_id, fsdocs, selVars, outcome>>

\* the handler returns: the write is complete and success is reported
Finished(r, l) == [l EXCEPT ![r].result = "success"]

\* InMemoryStorage.save_data: one assignment to the store
InMemorySave(r) ==
    /\ pc[r] = "save_data"
    /\ obj = "InMemoryStorage"
    /\ all_browser_data' = InMemory_save_data(all_browser_data, current_browser_id,
                                               loc[r].name, loc[r].df)
    /\ pc' = [pc EXCEPT ![r] = "done"]
    /\ loc' = Finished(r, loc)
    /\ UNCHANGED <<obj, xlFile, current_browser_id, fsdocs, selVars, outcome>>

\* ExcelStorage.save_data, first half: the other sheets are read back
ExcelSaveRead(r) ==
    /\ pc[r] = "save_data"
    /\ obj = "ExcelStorage"
    /\ loc' = [loc EXCEPT ![r].all_data =
                    [Excel_read_others(xlFile, loc[r].name)
                        EXCEPT ![loc[r].name] = Present(loc[r].df)]]
    /\ pc' = [pc EXCEPT ![r] = "excel_write"]
    /\ UNCHANGED <<obj, storeVars, selVars, outcome>>

\* ExcelStorage.save_data, second half: the file is rewritten
ExcelSaveWrite(r) ==
    /\ pc[r] = "excel_write"
    /\ xlFile' = Excel_write(loc[r].all_data)
    /\ pc' = [pc EXCEPT ![r] = "done"]
    /\ loc' = Finished(r, loc)
    /\ UNCHANGED <<obj, all_browser_data, current_browser_id, fsdocs, selVars, outcome>>

\* where FirebaseStorage.save_data stands once the documents still to
\* delete are docs and i of the records of df are set
FirebaseAt(docs, df, i) ==
    IF docs # <<>> THEN "firebase_delete"
    ELSE IF i < Len(df) THEN "firebase_set"
    ELSE "done"

\* FirebaseStorage.save_data: docs = collection_ref.stream()
FirebaseSaveStream(r) ==
    /\ pc[r] = "save_data"
    /\ obj = "FirebaseStorage"
    /\ LET docs == stream(fsdocs[loc[r].name])
           at == FirebaseAt(docs, loc[r].df, 0)
       IN /\ pc' = [pc EXCEPT ![r] = at]
          /\ loc' = IF at = "done"
                    THEN Finished(r, [loc EXCEPT ![r].docs = docs, ![r].i = 0])
                    ELSE [loc EXCEPT ![r].docs = docs, ![r].i = 0]
    /\ UNCHANGED <<obj, storeVars, selVars, outcome>>

\* FirebaseStorage.save_data: doc.reference.delete() for the next document
FirebaseSaveDelete(r) ==
    /\ pc[r] = "firebase_delete"
    /\ LET n == loc[r].name
           rest == Tail(loc[r].docs)
           at == FirebaseAt(rest, loc[r].df, 0)
       IN /\ fsdocs' = [fsdocs EXCEPT ![n] = doc_delete(fsdocs[n], Head(loc[r].docs))]
          /\ pc' = [pc EXCEPT ![r] = at]
          /\ loc' = IF at = "done"
                    THEN Finished(r, [loc EXCEPT ![r].docs = rest])
                    ELSE [loc EXCEPT ![r].docs = rest]
    /\ UNCHANGED <<obj, xlFile, all_browser_data, current_browser_id, selVars, outcome>>

\* FirebaseStorage.save_data: collection_ref.document(f'doc_{i}').set(...)
FirebaseSaveSet(r) ==
    /\ pc[r] = "firebase_set"
    /\ LET n == loc[r].name
           i == loc[r].i
           at == FirebaseAt(<<>>, loc[r].df, i + 1)
       IN /\ fsdocs' = [fsdocs EXCEPT
                            ![n] = doc_set(fsdocs[n], i, clean_record(loc[r].df[i + 1]))]
          /\ pc' = [pc EXCEPT ![r] = at]
          /\ loc' = IF at = "done"
                    THEN Finished(r, [loc EXCEPT ![r].i = i + 1])
                    ELSE [loc EXCEPT ![r].i = i + 1]
    /\ UNCHANGED <<obj, xlFile, all_browser_data, current_browser_id, selVars, outcome>>

NextConc ==
    \E r \in Requests :
        \/ \E n \in StoreNames : StartAdd(r, n)
        \/ \E n \in StoreNames, df \in WritesOf(r) : StartWrite(r, n, df)
        \/ AddGetData(r)
        \/ InMemorySave(r)
        \/ ExcelSaveRead(r)
        \/ ExcelSaveWrite(r)
        \/ FirebaseSaveStream(r)
        \/ FirebaseSaveDelete(r)
        \/ FirebaseSaveSet(r)

SpecConc == InitConc /\ [][NextConc]_vars

----------------------------------------------------------------------------
(* Claims about interleaved requests (SpecConc)                            *)

BothDone(op) ==
    /\ \A r \in Requests : pc[r] = "done" /\ loc[r].op = op
    /\ loc[1].name = loc[2].name

\* C9: two requests that each add one row to the same collection can
\* interleave so that both report success and the collection ends with only
\* one of the two new rows; nothing prevents or reports it.  Whenever both
\* have read the same contents, both report success and the collection ends
\* as those contents plus the row of one request alone.
C9_LostUpdateSilent ==
    (BothDone("add") /\ loc[1].read = loc[2].read) =>
        /\ \A r \in Requests : loc[r].result = "success"
        /\ \E r \in Requests : ReadNow(loc[r].name) = Append(loc[r].read, RowOf(r))

\* both adds have reported success and the row of request 1 is lost
C9_Witness ==
    /\ BothDone("add")
    /\ \A r \in Requests : loc[r].result = "success"
    /\ ReadNow(loc[1].name) = Append(loc[2].read, RowOf(2))
    /\ \A i \in 1..Len(ReadNow(loc[1].name)) : ReadNow(loc[1].name)[i] # RowOf(1)

\* C10: when write(name, D1) and write(name, D2) overlap in any way and
\* both complete, a later read(name) returns exactly D1 or exactly D2, never
\* a mixture of rows from both, in every backend.
C10_LastWriterWins ==
    BothDone("write") => ReadNow(loc[1].name) \in {loc[1].df, loc[2].df}

\* C11: when write(A, DA) and write(B, DB) with A different from B overlap in
\* any way and both complete, read(A) returns DA and read(B) returns DB, in
\* every backend.
C11_IndependentCollections ==
    (/\ \A r \in Requests : pc[r] = "done" /\ loc[r].op = "write"
     /\ loc[1].name # loc[2].name)
        => \A r \in Requests : ReadNow(loc[r].name) = loc[r].df

----------------------------------------------------------------------------
(* SpecScope: two requests on the transient backend, each under its own    *)
(* scope id.  A request calls set_browser_id with its id and then reads or *)
(* writes a collection; _current_browser_id is one attribute of the class, *)
(* shared by the threads that serve the requests, and the steps of the two *)
(* requests interleave.                                                    *)

\* the scope ids of the two requests, and the scopes of the store
ScopeOf(r) == IF r = 1 THEN "b1" ELSE "b2"
ScopeIds == {"default"} \cup {ScopeOf(r) : r \in Requests}

InitScope ==
    /\ obj = "InMemoryStorage"
    /\ xlFile = NoFile
    /\ \E base \in Bases, s \in SUBSET {ScopeOf(r) : r \in Requests} :
          all_browser_data =
              [b \in ScopeIds |->
                  IF b \in s
                  THEN InMemory_save_data([c \in ScopeIds |-> NoStore], b, "X", base)[b]
                  ELSE NoStore]
    /\ current_browser_id = "None"
    /\ fsdocs = [n \in Names |-> NoDocs]
    /\ config = NoConfig
    /\ storage_instance = NoInstance
    /\ fbApp = FALSE
    /\ libInstalled = TRUE
    /\ nextId = 1
    /\ outcome = Idle
    /\ pc = [r \in Requests |-> "idle"]
    /\ loc = [r \in Requests |-> NoLocal]

\* a request arrives: read collection n, or write df to it
ScopedStart(r, op, n, df) ==
    /\ pc[r] = "idle"
    /\ pc' = [pc EXCEPT ![r] = "set_browser_id"]
    /\ loc' = [loc EXCEPT ![r].op = op, ![r].name = n, ![r].df = df]
    /\ UNCHANGED <<obj, storeVars, selVars, outcome>>

\* InMemoryStorage.set_browser_id(browser_id): cls._current_browser_id = browser_id
ScopedSetBrowserId(r) ==
    /\ pc[r] = "set_browser_id"
    /\ current_browser_id' = ScopeOf(r)
    /\ pc' = [pc EXCEPT ![r] = IF loc[r].op = "read" THEN "get_data" ELSE "save_data"]
    /\ UNCHANGED <<obj, xlFile, all_browser_data, fsdocs, selVars, outcome, loc>>

\* InMemoryStorage.get_data(collection_name) in the request
ScopedGetData(r) ==
    /\ pc[r] = "get_data"
    /\ all_browser_data' =
            InMemory_after_get_data(all_browser_data, current_browser_id, loc[r].name)
    /\ loc' = [loc EXCEPT
                ![r].read = InMemory_get_data(all_browser_data, current_browser_id,
                                              loc[r].name),
                ![r].result = "success"]
    /\ pc' = [pc EXCEPT ![r] = "done"]
    /\ UNCHANGED <<obj, xlFile, current_browser_id, fsdocs, selVars, outcome>>

\* InMemoryStorage.save_data(collection_name, df) in the request
ScopedSaveData(r) ==
    /\ pc[r] = "save_data"
    /\ all_browser_data' = InMemory_save_data(all_browser_data, current_browser_id,
                                               loc[r].name, loc[r].df)
    /\ loc' = Finished(r, loc)
    /\ pc' = [pc EXCEPT ![r] = "done"]
    /\ UNCHANGED <<obj, xlFile, current_browser_id, fsdocs, selVars, outcome>>

NextScope ==
    \E r \in Requests :
        \/ \E n \in StoreNames : ScopedStart(r, "read", n, <<>>)
        \/ \E n \in StoreNames, df \in WritesOf(r) : ScopedStart(r, "write", n, df)
        \/ ScopedSetBrowserId(r)
        \/ ScopedGetData(r)
        \/ ScopedSaveData(r)

SpecScope == InitScope /\ [][NextScope]_vars

----------------------------------------------------------------------------
(* Claims about scoped requests (SpecScope)                                *)

\* the step is the read or the write of request r
ScopedStep(r) == pc[r] \in {"get_data", "save_data"} /\ pc'[r] = "done"

\* the collections of every scope other than s are as they were
OtherScopesKept(s) ==
    \A b \in ScopeIds \ {s} :
        \A n \in Names : ReadScope(all_browser_data', b, n) = ReadScope(all_browser_data, b, n)

\* C31: two requests each set their own scope id with set_browser_id and
\* then read or write through the transient backend; under every
\* interleaving the read of a request returns the rows of its collection in
\* the scope the request set, and its write puts the rows in that scope and
\* changes no collection of another scope.
C31_ScopeIsolation ==
    [][\A r \in Requests : ScopedStep(r) =>
            /\ loc[r].op = "read" =>
                  loc'[r].read = ReadScope(all_browser_data, ScopeOf(r), loc[r].name)
            /\ loc[r].op = "write" =>
                  /\ ReadScope(all_browser_data', ScopeOf(r), loc[r].name) = loc[r].df
                  /\ OtherScopesKept(ScopeOf(r))]_vars

----------------------------------------------------------------------------
(* SpecOverlap: a read of the remote backend while a write is in progress. *)
(* A request reads a collection with one stream of its documents, or       *)
(* writes it with FirebaseStorage.save_data, whose steps are the stream of *)
(* the old documents, one delete per old document and one set per new row. *)

\* what the collection holds before the requests start
OverlapBases == Bases \cup {<<Rec("a"), Rec("a")>>}

InitOverlap ==
    /\ obj = "FirebaseStorage"
    /\ xlFile = NoFile
    /\ all_browser_data = [s \in Scopes |-> NoStore]
    /\ current_browser_id = "None"
    /\ \E base \in OverlapBases :
          fsdocs = Firebase_save_data([n \in Names |-> NoDocs], "X", base)
    /\ config = NoConfig
    /\ storage_instance = NoInstance
    /\ fbApp = TRUE
    /\ libInstalled = TRUE
    /\ nextId = 1
    /\ outcome = Idle
    /\ pc = [r \in Requests |-> "idle"]
    /\ loc = [r \in Requests |-> NoLocal]

\* a request arrives: read collection n
OverlapStartRead(r, n) ==
    /\ pc[r] = "idle"
    /\ pc' = [pc EXCEPT ![r] = "get_data"]
    /\ loc' = [loc EXCEPT ![r].op = "read", ![r].name = n]
    /\ UNCHANGED <<obj, storeVars, selVars, outcome>>

\* a request arrives: write df to collection n; read records what the
\* collection holds when the write is called
OverlapStartWrite(r, n, df) ==
    /\ pc[r] = "idle"
    /\ pc' = [pc EXCEPT ![r] = "save_data"]
    /\ loc' = [loc EXCEPT ![r].op = "write", ![r].name = n, ![r].df = df,
                          ![r].read = Firebase_get_data(fsdocs, n)]
    /\ UNCHANGED <<obj, storeVars, selVars, outcome>>

\* FirebaseStorage.get_data in the request: the documents streamed now
OverlapGetData(r) ==
    /\ pc[r] = "get_data"
    /\ pc' = [pc EXCEPT ![r] = "done"]
    /\ loc' = [loc EXCEPT ![r].read = Firebase_get_data(fsdocs, loc[r].name),
                          ![r].result = "success"]
    /\ UNCHANGED <<obj, storeVars, selVars, outcome>>

NextOverlap ==
    \E r \in Requests :
        \/ \E n \in StoreNames : OverlapStartRead(r, n)
        \/ \E n \in StoreNames, df \in WritesOf(r) : OverlapStartWrite(r, n, df)
        \/ OverlapGetData(r)
        \/ FirebaseSaveStream(r)
        \/ FirebaseSaveDelete(r)
        \/ FirebaseSaveSet(r)

SpecOverlap == InitOverlap /\ [][NextOverlap]_vars

----------------------------------------------------------------------------
(* Claims about a read during a write (SpecOverlap)                        *)

\* request w is between the call of save_data and its return, writing the
\* collection request r reads
WriteInProgress(w, r) ==
    /\ w # r
    /\ loc[w].op = "write"
    /\ pc[w] \in {"save_data", "firebase_delete", "firebase_set"}
    /\ loc[w].name = loc[r].name

\* C32: a read(name) of the remote backend that overlaps a write(name,
\* D_new) returns the complete dataset held before the write or the complete
\* D_new, never an empty or partial dataset left by the delete and insert
\* loops of the write.
C32_ReadDuringWrite ==
    [][\A r, w \in Requests :
          (/\ loc[r].op = "read"
           /\ pc[r] = "get_data" /\ pc'[r] = "done"
           /\ WriteInProgress(w, r))
          => loc'[r].read \in {loc[w].read, loc[w].df}]_vars

----------------------------------------------------------------------------
(* SpecCli: the handlers of the command line (main.py) on one backend.     *)
(* The records of the collection have the identifier as first field and    *)
(* one more field, which update sets.                                      *)

\* records of the collection the commands are given
MaxCli == 3

Identifiers == {"a", "b"}
CliRecord(identifier, value) == [name |-> identifier, balance |-> value]

\* identifier_col = df.columns[0]
identifier_col == "name"

\* the positions of the records whose identifier is the one given
Matching(df, identifier) == {i \in DOMAIN df : df[i][identifier_col] = identifier}

\* df.loc[df[identifier_col] == identifier, key] = value, as it would be if
\* the first matching record alone were set
set_where_first(df, identifier, key, value) ==
    [i \in DOMAIN df |->
        IF i \in Matching(df, identifier) /\ \A j \in Matching(df, identifier) : i <= j
        THEN [df[i] EXCEPT ![key] = value]
        ELSE df[i]]

\* df.loc[df[identifier_col] == identifier, key] = value
set_where(df, identifier, key, value) ==
    [i \in DOMAIN df |->
        IF i \in Matching(df, identifier) THEN [df[i] EXCEPT ![key] = value] ELSE df[i]]

\* df[df[identifier_col] != identifier]
rows_without(df, identifier) ==
    SelectSeq(df, LAMBDA row : row[identifier_col] # identifier)

\* what a handler did: the dataset it read, whether it called save_data, and
\* what it printed
Handled_cli(op, identifier, df, wrote, message) ==
    [op |-> op, identifier |-> identifier, df |-> df, wrote |-> wrote,
     message |-> message]

InitCli ==
    /\ obj \in Backends
    /\ xlFile = IF obj = "ExcelStorage" THEN Excel_ensure_file_exists(NoFile) ELSE NoFile
    /\ all_browser_data = [s \in Scopes |-> NoStore]
    /\ current_browser_id = "None"
    /\ fsdocs = [n \in Names |-> NoDocs]
    /\ config = NoConfig
    /\ storage_instance = NoInstance
    /\ fbApp = (obj = "FirebaseStorage")
    /\ libInstalled = TRUE
    /\ nextId = 1
    /\ outcome = Handled_cli("none", "a", <<>>, FALSE, "none")
    /\ pc = [r \in Requests |-> "idle"]
    /\ loc = [r \in Requests |-> NoLocal]

\* the stores after database.get_data(sheet_name) and, when write holds,
\* database.save_data(sheet_name, df)
CliStores(sheet_name, write, df) ==
    \E st \in {IF write THEN store_save_data(Stores, sheet_name, df) ELSE Stores} :
        /\ xlFile' = st.xl
        /\ fsdocs' = st.fs
        /\ all_browser_data' =
              IF obj = "InMemoryStorage" /\ ~write
              THEN InMemory_after_get_data(all_browser_data, current_browser_id,
                                           sheet_name)
              ELSE st.abd

\* add: the record is appended to the collection
handle_add(sheet_name, record) ==
    /\ Len(store_get_data(sheet_name)) < MaxCli
    /\ CliStores(sheet_name, TRUE, concat(store_get_data(sheet_name), record))
    /\ outcome' = Handled_cli("handle_add", record[identifier_col],
                              store_get_data(sheet_name), TRUE, "Added")
    /\ UNCHANGED <<obj, current_browser_id, selVars, concVars>>

\* update <type> <name> --balance value
handle_update(sheet_name, identifier, value) ==
    /\ \E df \in {store_get_data(sheet_name)} :
          IF df_empty(df)
          THEN /\ CliStores(sheet_name, FALSE, df)
               /\ outcome' = Handled_cli("handle_update", identifier, df, FALSE,
                                         "No data found")
          ELSE IF Matching(df, identifier) = {}
          THEN /\ CliStores(sheet_name, FALSE, df)
               /\ outcome' = Handled_cli("handle_update", identifier, df, FALSE,
                                         "Error: not found")
          ELSE /\ CliStores(sheet_name, TRUE, set_where(df, identifier, "balance", value))
               /\ outcome' = Handled_cli("handle_update", identifier, df, TRUE,
                                         "Updated")
    /\ UNCHANGED <<obj, current_browser_id, selVars, concVars>>

\* delete <type> <name>
handle_delete(sheet_name, identifier) ==
    /\ \E df \in {store_get_data(sheet_name)} :
          IF df_empty(df)
          THEN /\ CliStores(sheet_name, FALSE, df)
               /\ outcome' = Handled_cli("handle_delete", identifier, df, FALSE,
                                         "No data found")
          ELSE IF Matching(df, identifier) = {}
          THEN /\ CliStores(sheet_name, FALSE, df)
               /\ outcome' = Handled_cli("handle_delete", identifier, df, FALSE,
                                         "Error: not found")
          ELSE /\ CliStores(sheet_name, TRUE, rows_without(df, identifier))
               /\ outcome' = Handled_cli("handle_delete", identifier, df, TRUE,
                                         "Deleted")
    /\ UNCHANGED <<obj, current_browser_id, selVars, concVars>>

NextCli ==
    \/ \E identifier \in Identifiers : handle_add("X", CliRecord(identifier, "old"))
    \/ \E identifier \in Identifiers : handle_update("X", identifier, "new")
    \/ \E identifier \in Identifiers : handle_delete("X", identifier)

SpecCli == InitCli /\ [][NextCli]_vars

----------------------------------------------------------------------------
(* Claims about the command line (SpecCli)                                 *)

\* position of the first record with the identifier
FirstMatch(df, identifier) ==
    CHOOSE i \in Matching(df, identifier) : \A j \in Matching(df, identifier) : i <= j

\* the dataset without its record at position p
WithoutRow(df, p) == [i \in 1..(Len(df) - 1) |-> IF i < p THEN df[i] ELSE df[i + 1]]

\* C38: update and delete by identifier, the value of the first field, in
\* the command-line handlers: when several records of the collection share
\* the identifier, at most the first of them is changed or removed and
\* every other record stays as it was; when no record has the identifier,
\* the handler reports it and calls no save_data.
C38_FirstMatchOnly ==
    outcome.op \in {"handle_update", "handle_delete"} =>
        /\ Matching(outcome.df, outcome.identifier) = {}
              => ~outcome.wrote /\ outcome.message \in {"Error: not found", "No data found"}
        /\ Cardinality(Matching(outcome.df, outcome.identifier)) > 1
              => \E p \in {FirstMatch(outcome.df, outcome.identifier)} :
                    \E after \in {store_get_data("X")} :
                        IF outcome.op = "handle_delete"
                        THEN after \in {outcome.df, WithoutRow(outcome.df, p)}
                        ELSE /\ Len(after) = Len(outcome.df)
                             /\ \A i \in DOMAIN after \ {p} : after[i] = outcome.df[i]

====
